---- MODULE Spec2Model ----
(***************************************************************************)
(* A model of the moda-trading core: the portfolio manager's position      *)
(* ledger (portfolio-service/main.py), the strategy engine and its risk    *)
(* manager (strategy-engine/main.py) and the orchestrator's rate budget    *)
(* (data-ingestion/orchestrator/main.py), over the Firestore wrapper       *)
(* (shared/firestore_client.py).                                           *)
(*                                                                         *)
(* Collections are functions from document ids to records.  Money values   *)
(* are exact rationals [n, d]; the two conversions the code applies to an  *)
(* average cost, float(x) on the way into the store and Decimal(str(x)) on *)
(* the way out, are modelled as binary rounding and shortest round-trip    *)
(* decimal formatting, at a significand of MantBits bits instead of 53.    *)
(***************************************************************************)
EXTENDS Integers, Sequences, FiniteSets, TLC

(***************************************************************************)
(* Bounds of the model                                                     *)
(***************************************************************************)
\* clock seconds 0..MaxTime
MaxTime == 1
\* execute_trade calls per behaviour
MaxTrades == 2
\* buys per behaviour of the buys-only specification
MaxBuys == 4
\* recommendations in the log read by one strategy-engine run
MaxRecs == 2
\* trade quantities 1..MaxQty
MaxQty == 2
\* close prices and limit prices 0..MaxPrice
MaxPrice == 4
\* significand width of the modelled binary float (53 in CPython)
MantBits == 8
\* execute_trade calls in flight together
MaxProcs == 2
\* orchestration jobs in flight together
MaxJobs == 2
\* call_service_endpoint calls per behaviour
MaxCalls == 2
\* orchestrator clock ticks 0..MaxClock
MaxClock == 2
MaxPasses == 2
\* symbols in the list of a collection stage run on its own
MaxStageSymbols == 5
\* symbols in the list of each stage of a full collection cycle
MaxCycleSymbols == 1
MaxRuns == 2
\* orchestrator clock ticks in one day
TicksPerDay == 2

Symbols == {"AAA", "BBB"}
Quantities == 1..MaxQty

(***************************************************************************)
(* Exact rationals n/d, d > 0, in lowest terms                             *)
(***************************************************************************)
Abs(x) == IF x < 0 THEN -x ELSE x

RECURSIVE Gcd(_, _)
Gcd(a, b) == IF b = 0 THEN a ELSE Gcd(b, a % b)

Rat(n, d) ==
    LET g == Gcd(Abs(n), d)
    IN  [n |-> n \div g, d |-> d \div g]

RInt(k) == [n |-> k, d |-> 1]
RAdd(x, y) == Rat(x.n * y.d + y.n * x.d, x.d * y.d)
RSub(x, y) == Rat(x.n * y.d - y.n * x.d, x.d * y.d)
RMul(x, y) == Rat(x.n * y.n, x.d * y.d)
RDivInt(x, k) == Rat(x.n, x.d * k)
RLess(x, y) == x.n * y.d < y.n * x.d
RLeq(x, y) == x.n * y.d <= y.n * x.d

RECURSIVE Pow(_, _)
Pow(b, k) == IF k = 0 THEN 1 ELSE b * Pow(b, k - 1)

\* num/den rounded to the nearest integer, ties to the even one
RoundHalfEven(num, den) ==
    LET q == num \div den
        r == num % den
    IN  IF 2 * r < den THEN q
        ELSE IF 2 * r > den THEN q + 1
        ELSE IF q % 2 = 0 THEN q ELSE q + 1

(***************************************************************************)
(* float(x) and Decimal(str(x))                                            *)
(***************************************************************************)
\* x * 2^k as a fraction num/den of integers
ScaleNum(x, k) == IF k >= 0 THEN x.n * Pow(2, k) ELSE x.n
ScaleDen(x, k) == IF k >= 0 THEN x.d ELSE x.d * Pow(2, 0 - k)

\* the k with 2^(MantBits-1) <= x * 2^k < 2^MantBits, for x > 0
RECURSIVE FloatExp(_, _)
FloatExp(x, k) ==
    IF ScaleNum(x, k) >= Pow(2, MantBits) * ScaleDen(x, k) THEN FloatExp(x, k - 1)
    ELSE IF 2 * ScaleNum(x, k) < Pow(2, MantBits) * ScaleDen(x, k) THEN FloatExp(x, k + 1)
    ELSE k

\* m * 2^(-k), m being x * 2^k rounded
FloatAt(x, k) ==
    IF k >= 0 THEN Rat(RoundHalfEven(ScaleNum(x, k), ScaleDen(x, k)), Pow(2, k))
    ELSE Rat(RoundHalfEven(ScaleNum(x, k), ScaleDen(x, k)) * Pow(2, 0 - k), 1)

\* float(x): the nearest binary float of MantBits significant bits, ties to even
ToFloat(x) == IF x.n = 0 THEN x ELSE FloatAt(x, FloatExp(x, 0))

\* x * 10^j as a fraction num/den of integers
DecNum(x, j) == IF j >= 0 THEN x.n * Pow(10, j) ELSE x.n
DecDen(x, j) == IF j >= 0 THEN x.d ELSE x.d * Pow(10, 0 - j)

\* the j with 10^(nd-1) <= x * 10^j < 10^nd, for x > 0
RECURSIVE DecExp(_, _, _)
DecExp(x, nd, j) ==
    IF DecNum(x, j) >= Pow(10, nd) * DecDen(x, j) THEN DecExp(x, nd, j - 1)
    ELSE IF DecNum(x, j) < Pow(10, nd - 1) * DecDen(x, j) THEN DecExp(x, nd, j + 1)
    ELSE j

\* the integer c taken as the decimal c * 10^(-j)
DecVal(c, j) == IF j >= 0 THEN Rat(c, Pow(10, j)) ELSE Rat(c * Pow(10, 0 - j), 1)

\* of the two decimals lo * 10^(-j) and (lo + 1) * 10^(-j) around f, the one
\* that float() maps back to f, the nearer one if both do; << >> if neither
RoundTrip(f, j, lo, loOk, hiOk) ==
    IF loOk /\ (~hiOk \/ 2 * (DecNum(f, j) % DecDen(f, j)) < DecDen(f, j)
                      \/ (2 * (DecNum(f, j) % DecDen(f, j)) = DecDen(f, j) /\ lo % 2 = 0))
    THEN << DecVal(lo, j) >>
    ELSE IF hiOk THEN << DecVal(lo + 1, j) >>
    ELSE << >>

RoundTripAt(f, j, lo) ==
    RoundTrip(f, j, lo, lo > 0 /\ ToFloat(DecVal(lo, j)) = f,
              ToFloat(DecVal(lo + 1, j)) = f)

RoundTripDigits(f, nd, j) == RoundTripAt(f, j, DecNum(f, j) \div DecDen(f, j))

\* str(f) of a float f, read back by Decimal: the decimal of the fewest
\* significant digits that float() maps back to f
RECURSIVE ShortestRepr(_, _)
ShortestReprOr(f, nd, found) ==
    IF found # << >> THEN found[1] ELSE ShortestRepr(f, nd + 1)

ShortestRepr(f, nd) == ShortestReprOr(f, nd, RoundTripDigits(f, nd, DecExp(f, nd, 0)))

DecimalOfStr(f) == IF f.n = 0 THEN f ELSE ShortestRepr(f, 1)

(***************************************************************************)
(* The document store (shared/firestore_client.py): a collection is a      *)
(* function from document ids to records.  Every write of the core passes *)
(* a complete record, so set(data, merge=True) and update(data) replace   *)
(* the stored record; update() fails on a missing document and the wrapper *)
(* swallows the failure.                                                   *)
(***************************************************************************)
EmptyStore == << >>

Upsert(store, id, data) ==
    [x \in DOMAIN store \cup {id} |-> IF x = id THEN data ELSE store[x]]

Update(store, id, data) ==
    IF id \in DOMAIN store THEN [store EXCEPT ![id] = data] ELSE store

Delete(store, id) == [x \in DOMAIN store \ {id} |-> store[x]]

\* documents come back ordered by document id; an id is <<symbol, ..., second>>
\* and the ids compared here share all but the last component
FirstId(ids) == CHOOSE id \in ids : \A o \in ids : id[Len(id)] <= o[Len(o)]

VARIABLES
    now,            \* the wall clock datetime.now() reads: local time, in seconds
    utc_offset,     \* local time minus UTC, in seconds: utcnow() reads now - utc_offset
    prices,         \* di_prices_daily: symbol -> (date -> close price or None)
    active,         \* pf_positions_active: <<symbol, second>> -> position
    history,        \* pf_positions_history: <<symbol, second>> -> position
    transactions,   \* pf_transactions: <<symbol, kind, second>> -> transaction
    tradesDone,     \* execute_trade calls made so far
    lastTrade,      \* the last execute_trade call: its signal and what it returned
    lots,           \* per symbol, the buys applied since its position was opened
    recs,           \* ml_recommendations_log inside the 24 hour window, oldest first
    se_signals,     \* se_trade_signals: <<symbol, second>> -> trade signal
    lastSignal,     \* the last generate_trade_signal call: its argument and result
    run,            \* the process_ml_recommendations job
    calls,          \* execute_trade calls in flight: where each is, what it holds
    api_call_counts,\* OrchestrationEngine.api_call_counts: provider -> calls counted
    last_reset,     \* OrchestrationEngine.last_reset, in clock ticks
    clock,          \* the orchestrator's wall clock, in ticks
    jobs,           \* orchestration jobs: where each is in call_service_endpoint
    callsBegun,     \* call_service_endpoint calls made so far
    issued,         \* per provider, POSTs sent since the counters were last reset
    recorded,       \* per provider, POSTs answered with success since that reset
    lastCheck,      \* the last can_make_api_call: its provider and what it returned
    cycle,          \* a collection stage or full cycle: where it is, what it attempted
    pass            \* process_trade_signals: the signals it still has to execute

pfVars == <<now, utc_offset, prices, active, history, transactions, tradesDone, lastTrade, lots>>
seVars == <<recs, se_signals, lastSignal, run>>
rcVars == <<calls>>
obVars == <<api_call_counts, last_reset, clock, jobs, callsBegun, issued, recorded, lastCheck, cycle>>
psVars == <<pass>>

(***************************************************************************)
(* portfolio-service/main.py                                               *)
(***************************************************************************)
Dates == 1..2
NoPrice == 0 - 1
\* a price_limit key that is there and holds None
NullPrice == 0 - 2
NoTime == 0 - 1
NoId == << >>

\* order_by="date", limit=1: the record of the least date
GetCurrentPrice(symbol) ==
    LET ds == {d \in Dates : prices[symbol][d] # NoPrice}
    IN  IF ds = {} THEN NoPrice
        ELSE prices[symbol][CHOOSE d \in ds : \A o \in ds : d <= o]

\* a test that takes only Decimal('0') for a missing price
NoCurrentPriceZeroOnly(price) == price = 0

\* `if not current_price`: None and Decimal('0') are both falsy
NoCurrentPrice(price) == price = NoPrice \/ price = 0

QueryActivePositions(store, symbol) ==
    {id \in DOMAIN store : store[id].symbol = symbol /\ store[id].status = "active"}

\* the list `positions` as update_positions uses it: empty, or its first document
ReadPositions(store, symbol) ==
    LET ids == QueryActivePositions(store, symbol)
    IN  IF ids = {} THEN << >>
        ELSE << [id |-> FirstId(ids), data |-> store[FirstId(ids)]] >>

\* the transaction with every signal read as a buy
NewTransactionAlwaysBuy(signal, execution_price, t) ==
    [symbol |-> signal.symbol,
     transaction_type |-> "buy",
     quantity |-> signal.quantity,
     price |-> execution_price,
     total_amount |-> execution_price * signal.quantity,
     fees |-> Rat(execution_price * signal.quantity, 1000),
     executed_at |-> t]

NewTransaction(signal, execution_price, t) ==
    [symbol |-> signal.symbol,
     transaction_type |-> IF signal.signal_type = "buy" THEN "buy" ELSE "sell",
     quantity |-> signal.quantity,
     price |-> execution_price,
     total_amount |-> execution_price * signal.quantity,
     fees |-> Rat(execution_price * signal.quantity, 1000),
     executed_at |-> t]

TransactionId(txn, t) == <<txn.symbol, txn.transaction_type, t>>

\* total_cost / new_quantity, stored as float(new_average_cost)
NewAverageCost(existing_quantity, average_cost, txn) ==
    LET existing_cost == DecimalOfStr(average_cost)
        total_cost == RAdd(RMul(RInt(existing_quantity), existing_cost),
                           RInt(txn.quantity * txn.price))
        new_quantity == existing_quantity + txn.quantity
    IN  ToFloat(RDivInt(total_cost, new_quantity))

\* the buy that writes its own quantity over the one held
AveragedUpReplacing(position_data, txn) ==
    [position_data EXCEPT
        !.quantity = txn.quantity,
        !.average_cost = NewAverageCost(position_data.quantity,
                                        position_data.average_cost, txn)]

AveragedUp(position_data, txn) ==
    [position_data EXCEPT
        !.quantity = position_data.quantity + txn.quantity,
        !.average_cost = NewAverageCost(position_data.quantity,
                                        position_data.average_cost, txn)]

NewPosition(txn) ==
    [symbol |-> txn.symbol,
     quantity |-> txn.quantity,
     average_cost |-> RInt(txn.price),
     current_price |-> NoPrice,
     market_value |-> NoPrice,
     status |-> "active",
     opened_at |-> txn.executed_at,
     closed_at |-> NoTime]

\* a full close that forgets to zero the quantity
ClosedPositionKeepsQuantity(position_data, txn) ==
    [position_data EXCEPT !.status = "closed", !.closed_at = txn.executed_at]

ClosedPosition(position_data, txn) ==
    [position_data EXCEPT
        !.status = "closed", !.closed_at = txn.executed_at, !.quantity = 0]

\* a partial sell that re-bases the average cost on the sale price
PartiallySoldRebased(position_data, txn) ==
    [position_data EXCEPT !.quantity = position_data.quantity - txn.quantity,
                          !.average_cost = RInt(txn.price)]

\* the partial sell with the operands of its subtraction exchanged
PartiallySoldSwapped(position_data, txn) ==
    [position_data EXCEPT !.quantity = txn.quantity - position_data.quantity]

PartiallySold(position_data, txn) ==
    [position_data EXCEPT !.quantity = position_data.quantity - txn.quantity]

\* update_positions run to its end with no other job in between: the two
\* partitions after it, from the two partitions before it
UpdatePositions(act, hist, txn, t) ==
    LET positions == ReadPositions(act, txn.symbol)
    IN  IF txn.transaction_type = "buy"
        THEN IF positions # << >>
             THEN [active |-> Update(act, positions[1].id,
                                     AveragedUp(positions[1].data, txn)),
                   history |-> hist]
             ELSE [active |-> Upsert(act, <<txn.symbol, t>>, NewPosition(txn)),
                   history |-> hist]
        ELSE IF positions # << >>
             THEN IF txn.quantity >= positions[1].data.quantity
                  THEN [active |-> Delete(act, positions[1].id),
                        history |-> Upsert(hist, positions[1].id,
                                           ClosedPosition(positions[1].data, txn))]
                  ELSE [active |-> Update(act, positions[1].id,
                                          PartiallySold(positions[1].data, txn)),
                        history |-> hist]
             ELSE [active |-> act, history |-> hist]

\* what `lots` records of a transaction applied to the positions read
LotsAfter(lot, positions, txn) ==
    IF txn.transaction_type = "buy"
    THEN IF positions = << >>
         THEN [q |-> txn.quantity, qp |-> txn.quantity * txn.price, pure |-> TRUE]
         ELSE [lot EXCEPT !.q = @ + txn.quantity,
                          !.qp = @ + txn.quantity * txn.price]
    ELSE IF positions = << >> THEN lot
         ELSE IF txn.quantity >= positions[1].data.quantity
              THEN [q |-> 0, qp |-> 0, pure |-> TRUE]
              ELSE [lot EXCEPT !.pure = FALSE]

NoLots == [q |-> 0, qp |-> 0, pure |-> TRUE]

\* Decimal(str(signal.get('price_limit', current_price))) on a None limit
\* raises, and execute_trade's handler returns None
RaisesOnPrice(signal) == signal.price_limit = NullPrice

\* the two partitions as update_positions leaves them
PositionsBecome(after) ==
    /\ active' = after.active
    /\ history' = after.history

\* execute_trade(signal), run to its end with no other job in between
ExecuteTrade(signal) ==
    /\ tradesDone' = tradesDone + 1
    /\ LET current_price == GetCurrentPrice(signal.symbol)
       IN  IF NoCurrentPrice(current_price) \/ RaisesOnPrice(signal)
           THEN /\ lastTrade' = [signal |-> signal, transaction_id |-> NoId,
                                 positions |-> << >>, executed_at |-> now]
                /\ UNCHANGED <<active, history, transactions, lots>>
           ELSE LET execution_price ==
                        IF signal.price_limit # NoPrice THEN signal.price_limit
                        ELSE current_price
                    txn == NewTransaction(signal, execution_price, now)
                    after == UpdatePositions(active, history, txn, now)
                    positions == ReadPositions(active, signal.symbol)
                IN  /\ transactions' = Upsert(transactions, TransactionId(txn, now), txn)
                    /\ PositionsBecome(after)
                    /\ lots' = [lots EXCEPT ![signal.symbol] = LotsAfter(@, positions, txn)]
                    /\ lastTrade' = [signal |-> signal,
                                     transaction_id |-> TransactionId(txn, now),
                                     positions |-> positions, executed_at |-> now]
    /\ UNCHANGED <<now, prices, utc_offset>>
    /\ UNCHANGED <<seVars, rcVars, obVars>>

\* one position revalued by update_position_values
Revalued(position, current_price) ==
    IF NoCurrentPrice(current_price) THEN position
    ELSE [position EXCEPT !.current_price = current_price,
                          !.market_value = current_price * position.quantity]

\* update_position_values(), run to its end with no other job in between
UpdatePositionValues ==
    /\ active' = [id \in DOMAIN active |->
                    IF active[id].status = "active"
                    THEN Revalued(active[id], GetCurrentPrice(active[id].symbol))
                    ELSE active[id]]
    /\ UNCHANGED <<now, prices, utc_offset, history, transactions, tradesDone, lastTrade, lots>>
    /\ UNCHANGED <<seVars, rcVars, obVars, psVars>>

\* the clock passes a second boundary
Tick ==
    /\ now < MaxTime
    /\ now' = now + 1
    /\ UNCHANGED <<prices, utc_offset, active, history, transactions, tradesDone, lastTrade, lots>>
    /\ UNCHANGED <<seVars, rcVars, obVars, psVars>>

(***************************************************************************)
(* portfolio-service/main.py: execute_trade calls in flight together.  A   *)
(* call's steps are its store calls, each with the code that leads to it.  *)
(***************************************************************************)
Procs == 1..MaxProcs

NoCall ==
    [pc |-> "idle",
     signal |-> [symbol |-> "", signal_type |-> "", quantity |-> 0, price_limit |-> NoPrice],
     current_price |-> NoPrice, txn |-> << >>, positions |-> << >>, failed |-> {},
     transaction_id |-> NoId]

\* signal.get('price_limit', current_price)
ExecutionPrice(signal, current_price) ==
    IF signal.price_limit # NoPrice THEN signal.price_limit ELSE current_price

\* execute_trade: the price query
QueryPrice(p, signal) ==
    /\ calls[p].pc = "idle"
    /\ LET current_price == GetCurrentPrice(signal.symbol)
       IN  calls' = [calls EXCEPT ![p] =
                        [NoCall EXCEPT
                            !.pc = IF NoCurrentPrice(current_price) THEN "done"
                                   ELSE "store_transaction",
                            !.signal = signal,
                            !.current_price = current_price]]
    /\ UNCHANGED <<pfVars, seVars, obVars, psVars>>

\* execute_trade: the transaction is built and stored
StoreTransaction(p) ==
    /\ calls[p].pc = "store_transaction"
    /\ LET txn == NewTransaction(calls[p].signal,
                                 ExecutionPrice(calls[p].signal, calls[p].current_price),
                                 now)
       IN  IF RaisesOnPrice(calls[p].signal)
           THEN /\ calls' = [calls EXCEPT ![p].pc = "done"]
                /\ UNCHANGED transactions
           ELSE /\ transactions' = Upsert(transactions, TransactionId(txn, now), txn)
                /\ calls' = [calls EXCEPT ![p].pc = "query_positions",
                                          ![p].txn = <<txn>>,
                                          ![p].transaction_id = TransactionId(txn, now)]
    /\ UNCHANGED <<now, prices, utc_offset, active, history, tradesDone, lastTrade, lots>>
    /\ UNCHANGED <<seVars, obVars, psVars>>

\* execute_trade: the store rejects the transaction write; upsert_document
\* returns False, which execute_trade does not look at
StoreTransactionFails(p) ==
    /\ calls[p].pc = "store_transaction"
    /\ ~RaisesOnPrice(calls[p].signal)
    /\ LET txn == NewTransaction(calls[p].signal,
                                 ExecutionPrice(calls[p].signal, calls[p].current_price),
                                 now)
       IN  calls' = [calls EXCEPT ![p].pc = "query_positions",
                                  ![p].txn = <<txn>>,
                                  ![p].transaction_id = TransactionId(txn, now),
                                  ![p].failed = @ \cup {"upsert_transaction"}]
    /\ UNCHANGED <<pfVars, seVars, obVars, psVars>>

\* update_positions: the query for the symbol's active positions
QueryPositions(p) ==
    /\ calls[p].pc = "query_positions"
    /\ calls' = [calls EXCEPT
                    ![p].pc = "write_position",
                    ![p].positions = ReadPositions(active, calls[p].signal.symbol)]
    /\ UNCHANGED <<pfVars, seVars, obVars, psVars>>

\* update_positions: the write its branch starts with, on the positions it read
WritePosition(p) ==
    /\ calls[p].pc = "write_position"
    /\ LET txn == calls[p].txn[1]
           positions == calls[p].positions
       IN  IF txn.transaction_type = "buy"
           THEN /\ active' = IF positions # << >>
                             THEN Update(active, positions[1].id,
                                         AveragedUp(positions[1].data, txn))
                             ELSE Upsert(active, <<txn.symbol, now>>, NewPosition(txn))
                /\ calls' = [calls EXCEPT ![p].pc = "done"]
                /\ UNCHANGED history
           ELSE IF positions = << >>
           THEN /\ calls' = [calls EXCEPT ![p].pc = "done"]
                /\ UNCHANGED <<active, history>>
           ELSE IF txn.quantity >= positions[1].data.quantity
           THEN /\ history' = Upsert(history, positions[1].id,
                                     ClosedPosition(positions[1].data, txn))
                /\ calls' = [calls EXCEPT ![p].pc = "delete_position"]
                /\ UNCHANGED active
           ELSE /\ active' = Update(active, positions[1].id,
                                    PartiallySold(positions[1].data, txn))
                /\ calls' = [calls EXCEPT ![p].pc = "done"]
                /\ UNCHANGED history
    /\ UNCHANGED <<now, prices, utc_offset, transactions, tradesDone, lastTrade, lots>>
    /\ UNCHANGED <<seVars, obVars, psVars>>

\* update_positions fails at its write: the store rejects it, or an
\* exception is caught and logged by update_positions; nothing is written
PositionWriteFails(p) ==
    /\ calls[p].pc = "write_position"
    /\ calls[p].txn[1].transaction_type = "buy" \/ calls[p].positions # << >>
    /\ calls' = [calls EXCEPT ![p].pc = "done",
                              ![p].failed = @ \cup {"update_positions"}]
    /\ UNCHANGED <<pfVars, seVars, obVars, psVars>>

\* execute_trade's result once it has returned: `return transaction_id`, or
\* None
Returned(p) == IF calls[p].pc = "done" THEN calls[p].transaction_id ELSE NoId

\* update_positions: a closed position is removed from the active partition
DeletePosition(p) ==
    /\ calls[p].pc = "delete_position"
    /\ active' = Delete(active, calls[p].positions[1].id)
    /\ calls' = [calls EXCEPT ![p].pc = "done"]
    /\ UNCHANGED <<now, prices, utc_offset, history, transactions, tradesDone, lastTrade, lots>>
    /\ UNCHANGED <<seVars, obVars, psVars>>

\* whether the positions a call read and its transaction make a full close
FullClose(call) ==
    /\ call.txn # << >>
    /\ call.txn[1].transaction_type = "sell"
    /\ call.positions # << >>
    /\ call.txn[1].quantity >= call.positions[1].data.quantity

\* a failed copy that ends update_positions
HistoryCopyFailsAndReturns(p) ==
    /\ calls[p].pc = "write_position"
    /\ FullClose(calls[p])
    /\ calls' = [calls EXCEPT ![p].pc = "done",
                              ![p].failed = @ \cup {"upsert_document"}]
    /\ UNCHANGED <<pfVars, seVars, obVars, psVars>>

\* update_positions, full close: upsert_document fails and returns False,
\* which update_positions does not look at
HistoryCopyFails(p) ==
    /\ calls[p].pc = "write_position"
    /\ FullClose(calls[p])
    /\ calls' = [calls EXCEPT ![p].pc = "delete_position",
                              ![p].failed = @ \cup {"upsert_document"}]
    /\ UNCHANGED <<pfVars, seVars, obVars, psVars>>

\* update_positions, full close: delete_document fails and returns False
DeleteFails(p) ==
    /\ calls[p].pc = "delete_position"
    /\ calls' = [calls EXCEPT ![p].pc = "done",
                              ![p].failed = @ \cup {"delete_document"}]
    /\ UNCHANGED <<pfVars, seVars, obVars, psVars>>

\* update_position_values: the active positions in the order of the query
RECURSIVE PositionsInOrder(_, _)
PositionsInOrder(store, ids) ==
    IF ids = {} THEN << >>
    ELSE LET id == FirstId(ids)
         IN  <<[id |-> id, data |-> store[id]]>> \o PositionsInOrder(store, ids \ {id})

\* update_position_values: the query for all active positions
QueryAllPositions(p) ==
    /\ calls[p].pc = "idle"
    /\ calls' = [calls EXCEPT
                    ![p].pc = "revalue",
                    ![p].positions =
                        PositionsInOrder(active, {id \in DOMAIN active :
                                                    active[id].status = "active"})]
    /\ UNCHANGED <<pfVars, seVars, obVars, psVars>>

\* update_position_values: one turn of `for position in positions`, which
\* writes the whole record read back with the new values; after the last
\* turn, the log line
WriteValues(p) ==
    /\ calls[p].pc = "revalue"
    /\ IF calls[p].positions = << >>
       THEN /\ calls' = [calls EXCEPT ![p].pc = "done"]
            /\ UNCHANGED active
       ELSE LET position == Head(calls[p].positions)
                current_price == GetCurrentPrice(position.data.symbol)
            IN  /\ active' = IF NoCurrentPrice(current_price) THEN active
                             ELSE Update(active, position.id,
                                         Revalued(position.data, current_price))
                /\ calls' = [calls EXCEPT ![p].positions = Tail(@)]
    /\ UNCHANGED <<now, prices, utc_offset, history, transactions, tradesDone, lastTrade, lots>>
    /\ UNCHANGED <<seVars, obVars, psVars>>

InitCalls == calls = [p \in Procs |-> NoCall]

(***************************************************************************)
(* strategy-engine/main.py: RiskManager                                    *)
(***************************************************************************)
min_confidence_threshold == 80
MaxActivePositions == 20
DefaultPortfolioValue == 10000
SignalLifetime == 86400

\* the sum of the market values of the documents `ids`, None counting 0
RECURSIVE SumMarketValues(_, _)
SumMarketValues(ids, store) ==
    IF ids = {} THEN 0
    ELSE LET id == CHOOSE x \in ids : TRUE
         IN  (IF store[id].market_value = NoPrice THEN 0 ELSE store[id].market_value)
             + SumMarketValues(ids \ {id}, store)

ActiveIds(store) == {id \in DOMAIN store : store[id].status = "active"}

\* the sum of the market values, with no default
GetPortfolioValueNoDefault(store) == SumMarketValues(ActiveIds(store), store)

\* the market values of the active positions that have one, or the default
GetPortfolioValue(store) ==
    LET total_value == SumMarketValues(ActiveIds(store), store)
    IN  IF total_value = 0 THEN DefaultPortfolioValue ELSE total_value

\* Decimal(str(position.get('market_value', 0))) of the first active position;
\* a stored None raises in Decimal() and the handler returns Decimal('0')
GetPositionValue(store, symbol) ==
    LET ids == QueryActivePositions(store, symbol)
    IN  IF ids = {} THEN 0
        ELSE IF store[FirstId(ids)].market_value = NoPrice THEN 0
        ELSE store[FirstId(ids)].market_value

RMin(x, y) == IF RLess(y, x) THEN y ELSE x

AtLeastOne(shares) == IF shares >= 1 THEN shares ELSE 1

\* int(x) of a quotient that is not negative
IntOf(x) == x.n \div x.d

\* max(1, int(portfolio_value * Decimal(str(adjusted_allocation)) / current_price))
CalculatePositionSize(store, current_price, confidence) ==
    LET portfolio_value == GetPortfolioValue(store)
        base_allocation == RMin(ToFloat(Rat(1, 10)), ToFloat(Rat(confidence, 1000)))
        confidence_multiplier == RMin(ToFloat(Rat(confidence, 100)), RInt(1))
        adjusted_allocation == ToFloat(RMul(base_allocation, confidence_multiplier))
        position_value == RMul(RInt(portfolio_value), DecimalOfStr(adjusted_allocation))
    IN  AtLeastOne(IntOf(RDivInt(position_value, current_price)))

\* self.stop_loss_pct = 0.08 and self.take_profit_pct = 0.15, floats
stop_loss_pct == ToFloat(Rat(8, 100))
take_profit_pct == ToFloat(Rat(15, 100))

\* Decimal(str(self.stop_loss_pct)) and Decimal(str(self.take_profit_pct))
StopLossDecimal == DecimalOfStr(stop_loss_pct)
TakeProfitDecimal == DecimalOfStr(take_profit_pct)

\* the stop loss with the buy side's and the sell side's signs exchanged
CalculateStopLossMirrored(entry_price, signal_type) ==
    IF signal_type = "buy"
    THEN RMul(RInt(entry_price), RAdd(RInt(1), StopLossDecimal))
    ELSE IF signal_type = "sell"
    THEN RMul(RInt(entry_price), RSub(RInt(1), StopLossDecimal))
    ELSE RInt(entry_price)

\* entry_price * (1 -/+ Decimal(str(self.stop_loss_pct)))
CalculateStopLoss(entry_price, signal_type) ==
    IF signal_type = "buy"
    THEN RMul(RInt(entry_price), RSub(RInt(1), StopLossDecimal))
    ELSE IF signal_type = "sell"
    THEN RMul(RInt(entry_price), RAdd(RInt(1), StopLossDecimal))
    ELSE RInt(entry_price)

\* entry_price * (1 +/- Decimal(str(self.take_profit_pct)))
CalculateTakeProfit(entry_price, signal_type) ==
    IF signal_type = "buy"
    THEN RMul(RInt(entry_price), RAdd(RInt(1), TakeProfitDecimal))
    ELSE IF signal_type = "sell"
    THEN RMul(RInt(entry_price), RSub(RInt(1), TakeProfitDecimal))
    ELSE RInt(entry_price)

\* the check letting a portfolio at the limit through
CheckPortfolioRiskLimitsInclusive(store) ==
    Cardinality(ActiveIds(store)) <= MaxActivePositions

CheckPortfolioRiskLimits(store) == Cardinality(ActiveIds(store)) < MaxActivePositions

(***************************************************************************)
(* strategy-engine/main.py: StrategyEngine                                 *)
(***************************************************************************)
\* buy filters whose confidence test rejects the threshold itself
ApplyBuyFiltersAboveThreshold(store, recommendation) ==
    /\ ~(recommendation.confidence_score <= min_confidence_threshold)
    /\ ~(GetPositionValue(store, recommendation.symbol) > 0)
    /\ CheckPortfolioRiskLimits(store)

ApplyBuyFilters(store, recommendation) ==
    /\ ~(recommendation.confidence_score < min_confidence_threshold)
    /\ ~(GetPositionValue(store, recommendation.symbol) > 0)
    /\ CheckPortfolioRiskLimits(store)

ApplySellFilters(store, recommendation) ==
    ~(GetPositionValue(store, recommendation.symbol) <= 0)

NewSignal(recommendation, quantity, current_price, t) ==
    [symbol |-> recommendation.symbol,
     signal_type |-> recommendation.recommendation,
     quantity |-> Abs(quantity),
     price_limit |-> current_price,
     stop_loss |-> CalculateStopLoss(current_price, recommendation.recommendation),
     take_profit |-> CalculateTakeProfit(current_price, recommendation.recommendation),
     confidence |-> recommendation.confidence_score,
     created_at |-> t - utc_offset,
     expires_at |-> t + SignalLifetime]

\* generate_trade_signal(recommendation): << >> for None, else <<signal>>
GenerateTradeSignal(store, recommendation, t) ==
    LET symbol == recommendation.symbol
        current_price == GetCurrentPrice(symbol)
        positions == ReadPositions(store, symbol)
    IN  IF NoCurrentPrice(current_price) THEN << >>
        ELSE IF recommendation.recommendation = "buy"
        THEN IF ~ApplyBuyFilters(store, recommendation) THEN << >>
             ELSE << NewSignal(recommendation,
                               CalculatePositionSize(store, current_price,
                                                     recommendation.confidence_score),
                               current_price, t) >>
        ELSE IF recommendation.recommendation = "sell"
        THEN IF ~ApplySellFilters(store, recommendation) THEN << >>
             ELSE IF positions = << >> THEN << >>
             ELSE << NewSignal(recommendation, positions[1].data.quantity,
                               current_price, t) >>
        ELSE << >>

NoRec == [symbol |-> "", recommendation |-> "", confidence_score |-> 0]
NoSignalCall == [recommendation |-> NoRec, signal |-> << >>]
IdleRun ==
    [pc |-> "idle", recommendations |-> << >>, i |-> 0, processed_symbols |-> {},
     signals |-> << >>, stored |-> << >>, runs |-> 0, returned |-> << >>]

\* a document id without the second
SignalIdBySymbol(symbol, t) == <<symbol, 0>>

SignalId(symbol, t) == <<symbol, t>>

\* POST /signals/generate: generate_trade_signal on a recommendation, the
\* signal stored under symbol_second
GenerateSignal(recommendation) ==
    LET signal == GenerateTradeSignal(active, recommendation, now)
    IN  /\ lastSignal' = [recommendation |-> recommendation, signal |-> signal]
        /\ se_signals' = IF signal = << >> THEN se_signals
                         ELSE Upsert(se_signals, SignalId(recommendation.symbol, now),
                                     signal[1])
        /\ UNCHANGED <<recs, run>>
        /\ UNCHANGED <<pfVars, rcVars, obVars, psVars>>

\* process_ml_recommendations: the recommendations are read
StartRun ==
    /\ run.pc = "idle"
    /\ run' = [IdleRun EXCEPT !.pc = IF recs = << >> THEN "done" ELSE "loop",
                              !.recommendations = recs,
                              !.i = Len(recs),
                              !.runs = 1]
    /\ UNCHANGED <<recs, se_signals, lastSignal>>
    /\ UNCHANGED <<pfVars, rcVars, obVars, psVars>>

\* process_ml_recommendations called again after it returned its signals
NextRun ==
    /\ run.pc = "done"
    /\ run.runs < MaxRuns
    /\ run' = [IdleRun EXCEPT !.pc = IF recs = << >> THEN "done" ELSE "loop",
                              !.recommendations = recs,
                              !.i = Len(recs),
                              !.runs = run.runs + 1,
                              !.returned = run.signals]
    /\ UNCHANGED <<recs, se_signals, lastSignal>>
    /\ UNCHANGED <<pfVars, rcVars, obVars, psVars>>

\* a loop that passes over no recommendation
SkipsNoSymbol(symbol, processed_symbols) == FALSE

\* whether the loop passes over a recommendation
SkipsSymbol(symbol, processed_symbols) == symbol \in processed_symbols

\* process_ml_recommendations: one pass of `for rec in reversed(recommendations)`
RunStep ==
    /\ run.pc = "loop"
    /\ LET rec == run.recommendations[run.i]
           signal == GenerateTradeSignal(active, rec, now)
           pc == IF run.i = 1 THEN "done" ELSE "loop"
       IN  IF SkipsSymbol(rec.symbol, run.processed_symbols) \/ signal = << >>
           THEN /\ run' = [run EXCEPT !.i = @ - 1, !.pc = pc]
                /\ lastSignal' = IF SkipsSymbol(rec.symbol, run.processed_symbols)
                                 THEN lastSignal
                                 ELSE [recommendation |-> rec, signal |-> signal]
                /\ UNCHANGED se_signals
           ELSE /\ run' = [run EXCEPT
                             !.i = @ - 1, !.pc = pc,
                             !.signals = Append(@, signal[1]),
                             !.processed_symbols = @ \cup {rec.symbol},
                             !.stored = Append(@, SignalId(rec.symbol, now))]
                /\ lastSignal' = [recommendation |-> rec, signal |-> signal]
                /\ se_signals' = Upsert(se_signals, SignalId(rec.symbol, now), signal[1])
    /\ UNCHANGED recs
    /\ UNCHANGED <<pfVars, rcVars, obVars, psVars>>

InitStrategy ==
    /\ recs = << >>
    /\ se_signals = EmptyStore
    /\ lastSignal = NoSignalCall
    /\ run = IdleRun

(***************************************************************************)
(* data-ingestion/orchestrator/main.py: OrchestrationEngine                *)
(***************************************************************************)
Providers == {"alphavantage", "finnhub", "polygon", "tiingo"}
AlphavantageDailyLimit == 100
FinnhubDailyLimit == 250
PolygonDailyLimit == 100
TiingoDailyLimit == 500

DAILY_LIMITS ==
    [provider \in Providers |->
        CASE provider = "alphavantage" -> AlphavantageDailyLimit
          [] provider = "finnhub" -> FinnhubDailyLimit
          [] provider = "polygon" -> PolygonDailyLimit
          [] provider = "tiingo" -> TiingoDailyLimit]

\* api_call_counts = {}
NoCounts == << >>

\* api_call_counts.get(provider_key, 0)
CurrentCount(counts, provider) ==
    IF provider \in DOMAIN counts THEN counts[provider] ELSE 0

\* an elapsed time counted in ticks instead of whole days
DaysBetweenInTicks(from, to) == to - from

\* (now - last_reset).days
DaysBetween(from, to) == (to - from) \div TicksPerDay

\* reset_api_counters_if_needed()
ResetApiCountersIfNeeded(counts, last, t) ==
    IF DaysBetween(last, t) >= 1
    THEN [api_call_counts |-> NoCounts, last_reset |-> t, reset |-> TRUE]
    ELSE [api_call_counts |-> counts, last_reset |-> last, reset |-> FALSE]

\* a budget test that lets the count reach one past the limit
WithinLimitInclusive(current_count, limit) == current_count <= limit

\* return current_count < limit
WithinLimit(current_count, limit) == current_count < limit

\* can_make_api_call(provider), on the counters as the reset left them
CanMakeApiCall(counts, provider) ==
    WithinLimit(CurrentCount(counts, provider), DAILY_LIMITS[provider])

\* increment_api_call_count(provider)
IncrementApiCallCount(counts, provider) ==
    Upsert(counts, provider, CurrentCount(counts, provider) + 1)

Jobs == 1..MaxJobs
NoCheck ==
    [provider |-> "", result |-> FALSE, reset |-> FALSE, before |-> 0, at |-> 0,
     counts |-> << >>]
ZeroCalls == [provider \in Providers |-> 0]
ReadyJob == [pc |-> "ready", provider |-> ""]

\* call_service_endpoint(provider, ...) up to its awaited POST: the budget
\* check, and the request sent if it passes
BeginCall(j, provider) ==
    /\ jobs[j].pc = "ready"
    /\ callsBegun < MaxCalls
    /\ callsBegun' = callsBegun + 1
    /\ LET r == ResetApiCountersIfNeeded(api_call_counts, last_reset, clock)
           ok == CanMakeApiCall(r.api_call_counts, provider)
           sent == IF r.reset THEN ZeroCalls ELSE issued
           answered == IF r.reset THEN ZeroCalls ELSE recorded
       IN  /\ api_call_counts' = r.api_call_counts
           /\ last_reset' = r.last_reset
           /\ lastCheck' = [provider |-> provider, result |-> ok, reset |-> r.reset,
                            before |-> recorded[provider],
                            at |-> answered[provider],
                            counts |-> api_call_counts]
           /\ issued' = IF ok THEN [sent EXCEPT ![provider] = @ + 1] ELSE sent
           /\ recorded' = answered
           /\ jobs' = [jobs EXCEPT ![j] = IF ok THEN [pc |-> "awaiting",
                                                      provider |-> provider]
                                           ELSE ReadyJob]
    /\ UNCHANGED <<clock, cycle>>
    /\ UNCHANGED <<pfVars, seVars, rcVars, psVars>>

\* the POST answers with success: the call is counted
ResponseOk(j) ==
    /\ jobs[j].pc = "awaiting"
    /\ api_call_counts' = IncrementApiCallCount(api_call_counts, jobs[j].provider)
    /\ recorded' = [recorded EXCEPT ![jobs[j].provider] = @ + 1]
    /\ jobs' = [jobs EXCEPT ![j] = ReadyJob]
    /\ UNCHANGED <<last_reset, clock, callsBegun, issued, lastCheck, cycle>>
    /\ UNCHANGED <<pfVars, seVars, rcVars, psVars>>

\* the POST raises, or answers with an error status: nothing is counted
ResponseError(j) ==
    /\ jobs[j].pc = "awaiting"
    /\ jobs' = [jobs EXCEPT ![j] = ReadyJob]
    /\ UNCHANGED <<api_call_counts, last_reset, clock, callsBegun, issued, recorded, lastCheck, cycle>>
    /\ UNCHANGED <<pfVars, seVars, rcVars, psVars>>

\* the orchestrator's clock advances
ClockTick ==
    /\ clock < MaxClock
    /\ clock' = clock + 1
    /\ UNCHANGED <<api_call_counts, last_reset, jobs, callsBegun, issued, recorded, lastCheck, cycle>>
    /\ UNCHANGED <<pfVars, seVars, rcVars, psVars>>

\* the collection stages, in the order of run_full_collection_cycle
Stages == <<"market_news", "intraday", "daily", "fundamentals">>

\* the providers list of each orchestrate_*_collection
StageProviders(stage) ==
    CASE stage = "market_news" -> <<"finnhub">>
      [] stage = "intraday" -> <<"finnhub", "alphavantage">>
      [] stage = "daily" -> <<"alphavantage", "finnhub", "polygon", "tiingo">>
      [] stage = "fundamentals" -> <<"alphavantage", "finnhub">>

\* the endpoints a stage calls for one symbol, in order
StageEndpoints(stage, provider) ==
    CASE stage = "market_news" -> <<"ingest/market-news">>
      [] stage = "intraday" ->
             <<IF provider = "finnhub" THEN "ingest/quote/{symbol}"
                                        ELSE "ingest/intraday-prices/{symbol}",
               "ingest/company-news/{symbol}">>
      [] stage = "daily" -> <<"ingest/daily-prices/{symbol}">>
      [] stage = "fundamentals" -> <<"ingest/fundamentals/{symbol}">>

\* an assignment that gives every symbol the first provider of the list
AssignedProviderFirst(stage, i) == StageProviders(stage)[1]

\* providers[i % len(providers)], i counted from 0
AssignedProvider(stage, i) ==
    StageProviders(stage)[(i % Len(StageProviders(stage))) + 1]

\* symbol = None: the market-news call names no symbol
NoSymbol == ""
NoHour == 0 - 1
\* the hours datetime.now().hour is read at
Hours == {0, 9, 12, 15, 23}
\* a gate that opens in the morning only
FundamentalsHoursMorning == {9}
\* if current_hour in [9, 15]
FundamentalsHours == {9, 15}

IdleCycle ==
    [pc |-> "idle", full |-> FALSE, stage |-> "", symbols |-> << >>, i |-> 0, k |-> 1,
     log |-> << >>, begun |-> << >>, current_hour |-> NoHour]

\* what the stage is about to call, or is waiting for
CurrentProvider(c) == AssignedProvider(c.stage, c.i)
CurrentEndpoint(c) == StageEndpoints(c.stage, CurrentProvider(c))[c.k]

\* the stage's current call attempt, with how it ended
Logged(c, outcome) ==
    [c EXCEPT !.log = Append(@, [stage |-> c.stage, i |-> c.i, k |-> c.k,
                                 symbol |-> c.symbols[c.i + 1],
                                 provider |-> CurrentProvider(c),
                                 endpoint |-> CurrentEndpoint(c),
                                 outcome |-> outcome])]

\* the stage returns: a stage run on its own is over, a full cycle goes on
StageOver(c) ==
    [c EXCEPT !.pc = IF ~c.full \/ c.stage = "fundamentals" THEN "done"
                     ELSE IF c.stage = "daily" THEN "hour" ELSE "between"]

\* a denied call that keeps the stage at the same symbol
AdvanceStayingOnDenied(c) ==
    IF c.log[Len(c.log)].outcome = "denied" THEN [c EXCEPT !.pc = "loop"]
    ELSE IF c.k < Len(StageEndpoints(c.stage, CurrentProvider(c)))
    THEN [c EXCEPT !.pc = "loop", !.k = @ + 1]
    ELSE IF c.i + 1 < Len(c.symbols)
    THEN [c EXCEPT !.pc = "loop", !.i = @ + 1, !.k = 1]
    ELSE StageOver(c)

\* after a call returns: the symbol's next call, or the next symbol of the
\* for loop, or the end of the stage
Advance(c) ==
    IF c.k < Len(StageEndpoints(c.stage, CurrentProvider(c)))
    THEN [c EXCEPT !.pc = "loop", !.k = @ + 1]
    ELSE IF c.i + 1 < Len(c.symbols)
    THEN [c EXCEPT !.pc = "loop", !.i = @ + 1, !.k = 1]
    ELSE StageOver(c)

\* orchestrate_*_collection is entered with the symbols its queries returned;
\* it returns at once when there are none
EnterStage(c, stage, symbols) ==
    LET entered == [c EXCEPT !.stage = stage, !.symbols = symbols, !.i = 0, !.k = 1,
                             !.begun = Append(@, stage)]
    IN  IF symbols = << >> THEN StageOver(entered)
        ELSE [entered EXCEPT !.pc = "loop"]

\* the symbol lists the stages' queries return
StageSymbols == <<"AAA", "BBB", "CCC", "DDD", "EEE", "FFF", "GGG">>
SymbolLists(n) == {SubSeq(StageSymbols, 1, len) : len \in 0..n}

\* one of POST /orchestrate/{intraday,daily,fundamentals,market-news}: the
\* stage runs on its own as a background task
StartStage(stage, symbols) ==
    /\ cycle.pc = "idle"
    /\ (stage = "market_news") = (symbols = <<NoSymbol>>)
    /\ cycle' = EnterStage(cycle, stage, symbols)
    /\ UNCHANGED <<api_call_counts, last_reset, clock, jobs, callsBegun, issued, recorded, lastCheck>>
    /\ UNCHANGED <<pfVars, seVars, rcVars, psVars>>

\* run_full_collection_cycle starts with the market news
StartCycle ==
    /\ cycle.pc = "idle"
    /\ cycle' = EnterStage([cycle EXCEPT !.full = TRUE], "market_news", <<NoSymbol>>)
    /\ UNCHANGED <<api_call_counts, last_reset, clock, jobs, callsBegun, issued, recorded, lastCheck>>
    /\ UNCHANGED <<pfVars, seVars, rcVars, psVars>>

\* run_full_collection_cycle: the stage after market news or intraday
NextStage(symbols) ==
    /\ cycle.pc = "between"
    /\ cycle' = EnterStage(cycle, IF cycle.stage = "market_news" THEN "intraday"
                                  ELSE "daily", symbols)
    /\ UNCHANGED <<api_call_counts, last_reset, clock, jobs, callsBegun, issued, recorded, lastCheck>>
    /\ UNCHANGED <<pfVars, seVars, rcVars, psVars>>

\* run_full_collection_cycle after the daily stage: the hour is read, and
\* the fundamentals stage runs if it is 9 or 15
ReadHour(current_hour, symbols) ==
    /\ cycle.pc = "hour"
    /\ cycle' = IF current_hour \in FundamentalsHours
                THEN EnterStage([cycle EXCEPT !.current_hour = current_hour],
                                "fundamentals", symbols)
                ELSE [cycle EXCEPT !.current_hour = current_hour, !.pc = "done"]
    /\ UNCHANGED <<api_call_counts, last_reset, clock, jobs, callsBegun, issued, recorded, lastCheck>>
    /\ UNCHANGED <<pfVars, seVars, rcVars, psVars>>

\* call_service_endpoint from a stage, up to its awaited POST: a denied call
\* returns False and the stage goes on
StageCall ==
    /\ cycle.pc = "loop"
    /\ LET provider == CurrentProvider(cycle)
           r == ResetApiCountersIfNeeded(api_call_counts, last_reset, clock)
           ok == CanMakeApiCall(r.api_call_counts, provider)
           sent == IF r.reset THEN ZeroCalls ELSE issued
           answered == IF r.reset THEN ZeroCalls ELSE recorded
       IN  /\ api_call_counts' = r.api_call_counts
           /\ last_reset' = r.last_reset
           /\ lastCheck' = [provider |-> provider, result |-> ok, reset |-> r.reset,
                            before |-> recorded[provider],
                            at |-> answered[provider],
                            counts |-> api_call_counts]
           /\ issued' = IF ok THEN [sent EXCEPT ![provider] = @ + 1] ELSE sent
           /\ recorded' = answered
           /\ cycle' = IF ok THEN [cycle EXCEPT !.pc = "awaiting"]
                       ELSE Advance(Logged(cycle, "denied"))
    /\ UNCHANGED <<clock, jobs, callsBegun>>
    /\ UNCHANGED <<pfVars, seVars, rcVars, psVars>>

\* the stage's POST answers with success: the call is counted
StageResponseOk ==
    /\ cycle.pc = "awaiting"
    /\ api_call_counts' = IncrementApiCallCount(api_call_counts, CurrentProvider(cycle))
    /\ recorded' = [recorded EXCEPT ![CurrentProvider(cycle)] = @ + 1]
    /\ cycle' = Advance(Logged(cycle, "ok"))
    /\ UNCHANGED <<last_reset, clock, jobs, callsBegun, issued, lastCheck>>
    /\ UNCHANGED <<pfVars, seVars, rcVars, psVars>>

\* a failed call that ends the stage
StageResponseErrorStops ==
    /\ cycle.pc = "awaiting"
    /\ cycle' = [Logged(cycle, "error") EXCEPT !.pc = "done"]
    /\ UNCHANGED <<api_call_counts, last_reset, clock, jobs, callsBegun, issued, recorded, lastCheck>>
    /\ UNCHANGED <<pfVars, seVars, rcVars, psVars>>

\* the stage's POST raises, answers with an error status or times out: the
\* call returns False and the stage goes on
StageResponseError ==
    /\ cycle.pc = "awaiting"
    /\ cycle' = Advance(Logged(cycle, "error"))
    /\ UNCHANGED <<api_call_counts, last_reset, clock, jobs, callsBegun, issued, recorded, lastCheck>>
    /\ UNCHANGED <<pfVars, seVars, rcVars, psVars>>

\* OrchestrationEngine.__init__
InitJobs ==
    /\ cycle = IdleCycle
    /\ last_reset = 0
    /\ clock = 0
    /\ jobs = [j \in Jobs |-> ReadyJob]
    /\ callsBegun = 0
    /\ lastCheck = NoCheck

InitOrchestrator ==
    /\ api_call_counts = NoCounts
    /\ issued = ZeroCalls
    /\ recorded = ZeroCalls
    /\ InitJobs

(***************************************************************************)
(* portfolio-service/main.py: process_trade_signals                        *)
(***************************************************************************)
SignalWindow == 86400

IdlePass == [pc |-> "idle", current_time |-> NoTime, signals |-> << >>, passes |-> 0]

\* the query without its two filters
UnexpiredSignalsAnyAge(t) == DOMAIN se_signals

\* the query, leaving out the symbols that have a transaction already
UnexpiredSignalsOnce(t) ==
    {id \in DOMAIN se_signals :
        /\ se_signals[id].expires_at > t
        /\ se_signals[id].created_at >= t - SignalWindow
        /\ \A x \in DOMAIN transactions :
               transactions[x].symbol # se_signals[id].symbol}

\* the se_trade_signals documents that pass both filters at time t
UnexpiredSignals(t) ==
    {id \in DOMAIN se_signals :
        /\ se_signals[id].expires_at > t
        /\ se_signals[id].created_at >= t - SignalWindow}

\* the orders in which the query can hand them back: by expires_at, the
\* field of its first inequality filter
QuerySignals(t) ==
    LET ids == UnexpiredSignals(t)
        n == Cardinality(ids)
    IN  {[k \in 1..n |-> se_signals[q[k]]] :
            q \in {o \in [1..n -> ids] :
                     /\ \A i, j \in 1..n : i # j => o[i] # o[j]
                     /\ \A i, j \in 1..n :
                            i < j => se_signals[o[i]].expires_at
                                         <= se_signals[o[j]].expires_at}}

\* current_time = datetime.now() and the query
StartPass ==
    /\ pass.pc # "loop"
    /\ pass.passes < MaxPasses
    /\ \E signals \in QuerySignals(now) :
           pass' = [pc |-> "loop", current_time |-> now, signals |-> signals,
                    passes |-> pass.passes + 1]
    /\ UNCHANGED <<pfVars, seVars, rcVars, obVars>>

\* one turn of "for signal in signals", or the log line after the loop
PassStep ==
    /\ pass.pc = "loop"
    /\ IF pass.signals = << >>
       THEN /\ pass' = [pass EXCEPT !.pc = "done"]
            /\ UNCHANGED <<pfVars, seVars, rcVars, obVars>>
       ELSE /\ ExecuteTrade(Head(pass.signals))
            /\ pass' = [pass EXCEPT !.signals = Tail(@)]

InitPass == pass = IdlePass


\* the service's time zone: UTC-12, UTC, UTC+14
UtcOffsets == {0 - 43200, 0, 50400}

\* the daily price collection as the ingestion services left it: no record,
\* an oldest record with close 0, one record, two records
NoBook == [d \in Dates |-> NoPrice]
ZeroBook == [d \in Dates |-> IF d = 1 THEN 0 ELSE MaxPrice]
OneBook == [d \in Dates |-> IF d = 1 THEN 2 ELSE NoPrice]
TwoBook == [d \in Dates |-> IF d = 1 THEN 1 ELSE MaxPrice]

PriceInits ==
    {[s \in Symbols |-> IF s = "AAA" THEN TwoBook ELSE OneBook],
     [s \in Symbols |-> IF s = "AAA" THEN NoBook ELSE OneBook],
     [s \in Symbols |-> IF s = "AAA" THEN ZeroBook ELSE OneBook]}

NoTrade ==
    [signal |-> [symbol |-> "", signal_type |-> "", quantity |-> 0, price_limit |-> NoPrice],
     transaction_id |-> NoId, positions |-> << >>, executed_at |-> NoTime]

InitPortfolio ==
    /\ now = 0
    /\ utc_offset = 0
    /\ prices \in PriceInits
    /\ active = EmptyStore
    /\ history = EmptyStore
    /\ transactions = EmptyStore
    /\ tradesDone = 0
    /\ lastTrade = NoTrade
    /\ lots = [s \in Symbols |-> NoLots]

vars == <<pfVars, seVars, rcVars, obVars, psVars>>

(***************************************************************************)
(* Spec: the portfolio service with its jobs run one after another         *)
(***************************************************************************)
\* the payloads of POST /trades/execute
TradeInputs ==
    [symbol : Symbols, signal_type : {"buy", "sell"}, quantity : {1, MaxQty},
     price_limit : {NoPrice, NullPrice, MaxPrice}]

Trade ==
    /\ tradesDone < MaxTrades
    /\ \E signal \in TradeInputs : ExecuteTrade(signal)
    /\ UNCHANGED psVars

Init == InitPortfolio /\ InitStrategy /\ InitCalls /\ InitOrchestrator /\ InitPass

Next ==
    \/ Trade
    \/ UpdatePositionValues
    \/ Tick

Spec == Init /\ [][Next]_vars

(***************************************************************************)
(* SpecBuys: buys of one symbol, one after another                         *)
(***************************************************************************)
BuyInputs ==
    [symbol : {"AAA"}, signal_type : {"buy"}, quantity : Quantities,
     price_limit : {NoPrice} \cup (1..MaxPrice)]

Buy ==
    /\ tradesDone < MaxBuys
    /\ \E signal \in BuyInputs : ExecuteTrade(signal)
    /\ UNCHANGED psVars

InitBuys ==
    /\ InitPortfolio
    /\ InitStrategy
    /\ InitCalls
    /\ InitPass
    /\ InitOrchestrator
    /\ prices = [s \in Symbols |-> IF s = "AAA" THEN TwoBook ELSE OneBook]

NextBuys == Buy

SpecBuys == InitBuys /\ [][NextBuys]_vars

(***************************************************************************)
(* The strategy engine's specifications read a position store that the     *)
(* portfolio service left behind: per symbol no position, a position just  *)
(* opened by a buy (market value not set yet), or that position after a    *)
(* valuation pass.                                                         *)
(***************************************************************************)
OpenedPosition(symbol, book) ==
    NewPosition(NewTransaction(
        [symbol |-> symbol, signal_type |-> "buy", quantity |-> MaxQty,
         price_limit |-> NoPrice],
        book[symbol][1], 0))

ValuedPosition(symbol, book) ==
    [OpenedPosition(symbol, book) EXCEPT
        !.current_price = book[symbol][1],
        !.market_value = book[symbol][1] * MaxQty]

Holdings(book) ==
    {h \in [Symbols -> {"none", "opened", "valued"}] :
        \A s \in Symbols : h[s] # "none" => ~NoCurrentPrice(book[s][1])}

StoreOf(h, book) ==
    [id \in {<<s, 0>> : s \in {x \in Symbols : h[x] # "none"}} |->
        IF h[id[1]] = "opened" THEN OpenedPosition(id[1], book)
        ELSE ValuedPosition(id[1], book)]

HeldStores(book) == {StoreOf(h, book) : h \in Holdings(book)}

(***************************************************************************)
(* SpecSignal: generate_trade_signal on one recommendation                 *)
(***************************************************************************)
ConfidenceScores == {0, 79, 80, 85, 100}

RecInputs ==
    [symbol : Symbols, recommendation : {"buy", "sell", "hold"},
     confidence_score : ConfidenceScores]

\* one call per behaviour
Generate ==
    /\ lastSignal = NoSignalCall
    /\ \E recommendation \in RecInputs : GenerateSignal(recommendation)

InitHeld ==
    /\ now = 0
    /\ utc_offset \in UtcOffsets
    /\ prices \in PriceInits
    /\ active \in HeldStores(prices)
    /\ history = EmptyStore
    /\ transactions = EmptyStore
    /\ tradesDone = 0
    /\ lastTrade = NoTrade
    /\ lots = [s \in Symbols |-> NoLots]

NextSignal ==
    \/ Generate
    \/ Tick

InitSignal == InitHeld /\ InitStrategy /\ InitCalls /\ InitOrchestrator /\ InitPass

SpecSignal == InitSignal /\ [][NextSignal]_vars

(***************************************************************************)
(* SpecNoPrice: signals and trades for a symbol that has no daily price    *)
(* record, and for one that has                                            *)
(***************************************************************************)
UnpricedTrades ==
    [symbol : Symbols, signal_type : {"buy", "sell"}, quantity : {1},
     price_limit : {NoPrice, MaxPrice}]

UnpricedRecs ==
    [symbol : Symbols, recommendation : {"buy", "sell"}, confidence_score : {85}]

TradeUnpriced ==
    /\ tradesDone < MaxTrades
    /\ \E signal \in UnpricedTrades : ExecuteTrade(signal)
    /\ UNCHANGED psVars

\* one call per behaviour
GenerateUnpriced ==
    /\ lastSignal = NoSignalCall
    /\ \E recommendation \in UnpricedRecs : GenerateSignal(recommendation)

InitNoPrice ==
    /\ Init
    /\ prices = [s \in Symbols |-> IF s = "AAA" THEN NoBook ELSE OneBook]

NextNoPrice ==
    \/ TradeUnpriced
    \/ GenerateUnpriced
    \/ Tick

SpecNoPrice == InitNoPrice /\ [][NextNoPrice]_vars

(***************************************************************************)
(* SpecEngine: one run of process_ml_recommendations                       *)
(***************************************************************************)
EngineRecs ==
    {r \in RecInputs :
        \/ r.recommendation = "buy" /\ r.confidence_score \in {79, 80}
        \/ r.recommendation # "buy" /\ r.confidence_score = 80}

RECURSIVE SeqsUpTo(_, _)
SeqsUpTo(S, n) ==
    IF n = 0 THEN {<< >>}
    ELSE LET shorter == SeqsUpTo(S, n - 1)
         IN  shorter \cup {Append(q, x) : q \in shorter, x \in S}

InitEngine ==
    /\ InitHeld
    /\ utc_offset = 0
    /\ prices \in {p \in PriceInits : p["AAA"] # ZeroBook}
    /\ \A id \in DOMAIN active : active[id].market_value # NoPrice
    /\ recs \in SeqsUpTo(EngineRecs, MaxRecs)
    /\ se_signals = EmptyStore
    /\ lastSignal = NoSignalCall
    /\ run = IdleRun
    /\ InitCalls
    /\ InitPass
    /\ InitOrchestrator

NextEngine ==
    \/ StartRun
    \/ RunStep
    \/ Tick

SpecEngine == InitEngine /\ [][NextEngine]_vars

(***************************************************************************)
(* SpecRuns: process_ml_recommendations called repeatedly while the log    *)
(* holds the one recommendation                                            *)
(***************************************************************************)
InitRuns ==
    /\ InitEngine
    /\ Len(recs) = 1

NextRuns ==
    \/ StartRun
    \/ RunStep
    \/ NextRun
    \/ Tick

SpecRuns == InitRuns /\ [][NextRuns]_vars

(***************************************************************************)
(* SpecRace: execute_trade calls on one symbol, in flight together         *)
(***************************************************************************)
RaceInputs ==
    [symbol : {"AAA"}, signal_type : {"buy", "sell"}, quantity : {1, MaxQty},
     price_limit : {NoPrice}]

InitRace ==
    /\ InitPortfolio
    /\ prices = [s \in Symbols |-> IF s = "AAA" THEN TwoBook ELSE OneBook]
    /\ InitStrategy
    /\ InitCalls
    /\ InitPass
    /\ InitOrchestrator

NextRace ==
    \/ \E p \in Procs : \E signal \in RaceInputs : QueryPrice(p, signal)
    \/ \E p \in Procs : StoreTransaction(p)
    \/ \E p \in Procs : QueryPositions(p)
    \/ \E p \in Procs : WritePosition(p)
    \/ \E p \in Procs : DeletePosition(p)
    \/ Tick

SpecRace == InitRace /\ [][NextRace]_vars

(***************************************************************************)
(* SpecRaceHeld: execute_trade buys in flight together on a symbol that is *)
(* held already                                                            *)
(***************************************************************************)
HeldRaceInputs ==
    [symbol : {"AAA"}, signal_type : {"buy"}, quantity : {1, MaxQty},
     price_limit : {NoPrice, MaxPrice}]

InitRaceHeld ==
    /\ now = 0
    /\ utc_offset = 0
    /\ prices = [s \in Symbols |-> IF s = "AAA" THEN TwoBook ELSE OneBook]
    /\ active = [id \in {<<"AAA", 0>>} |-> OpenedPosition("AAA", prices)]
    /\ history = EmptyStore
    /\ transactions = EmptyStore
    /\ tradesDone = 0
    /\ lastTrade = NoTrade
    /\ lots = [s \in Symbols |-> NoLots]
    /\ InitStrategy
    /\ InitCalls
    /\ InitPass
    /\ InitOrchestrator

NextRaceHeld ==
    \/ \E p \in Procs : \E signal \in HeldRaceInputs : QueryPrice(p, signal)
    \/ \E p \in Procs : StoreTransaction(p)
    \/ \E p \in Procs : QueryPositions(p)
    \/ \E p \in Procs : WritePosition(p)
    \/ Tick

SpecRaceHeld == InitRaceHeld /\ [][NextRaceHeld]_vars

(***************************************************************************)
(* SpecValuation: update_position_values in flight together with          *)
(* execute_trade calls on a symbol that is held                            *)
(***************************************************************************)
NextValuation ==
    \/ \E p \in Procs : \E signal \in RaceInputs : QueryPrice(p, signal)
    \/ \E p \in Procs : StoreTransaction(p)
    \/ \E p \in Procs : QueryPositions(p)
    \/ \E p \in Procs : WritePosition(p)
    \/ \E p \in Procs : DeletePosition(p)
    \/ \E p \in Procs : QueryAllPositions(p)
    \/ \E p \in Procs : WriteValues(p)
    \/ Tick

SpecValuation == InitRaceHeld /\ [][NextValuation]_vars

(***************************************************************************)
(* SpecFailures: sells of a held symbol, with store calls of the full      *)
(* close that may fail                                                     *)
(***************************************************************************)
SellInputs ==
    [symbol : {"AAA"}, signal_type : {"sell"}, quantity : {1, MaxQty},
     price_limit : {NoPrice}]

NextFailures ==
    \/ \E p \in Procs : \E signal \in SellInputs : QueryPrice(p, signal)
    \/ \E p \in Procs : StoreTransaction(p)
    \/ \E p \in Procs : QueryPositions(p)
    \/ \E p \in Procs : WritePosition(p)
    \/ \E p \in Procs : DeletePosition(p)
    \/ \E p \in Procs : HistoryCopyFails(p)
    \/ \E p \in Procs : DeleteFails(p)
    \/ Tick

SpecFailures == InitRaceHeld /\ [][NextFailures]_vars

(***************************************************************************)
(* SpecRejected: trades of a held symbol, with a transaction write or a    *)
(* position update that may fail                                           *)
(***************************************************************************)
RejectedInputs ==
    [symbol : {"AAA"}, signal_type : {"buy", "sell"}, quantity : {1, MaxQty},
     price_limit : {NoPrice}]

NextRejected ==
    \/ \E p \in Procs : \E signal \in RejectedInputs : QueryPrice(p, signal)
    \/ \E p \in Procs : StoreTransaction(p)
    \/ \E p \in Procs : StoreTransactionFails(p)
    \/ \E p \in Procs : QueryPositions(p)
    \/ \E p \in Procs : WritePosition(p)
    \/ \E p \in Procs : PositionWriteFails(p)
    \/ \E p \in Procs : DeletePosition(p)
    \/ Tick

SpecRejected == InitRaceHeld /\ [][NextRejected]_vars

(***************************************************************************)
(* SpecBudget: orchestration jobs sharing the one OrchestrationEngine, on  *)
(* a day on which one provider's count is at its limit or one short of it  *)
(***************************************************************************)
CountsSoFar ==
    {NoCounts} \cup
    UNION {{[k \in {provider} |-> DAILY_LIMITS[provider] - 1],
            [k \in {provider} |-> DAILY_LIMITS[provider]]} : provider \in Providers}

InitBudget ==
    /\ InitPortfolio
    /\ prices = [s \in Symbols |-> IF s = "AAA" THEN TwoBook ELSE OneBook]
    /\ InitStrategy
    /\ InitCalls
    /\ InitPass
    /\ InitJobs
    /\ api_call_counts \in CountsSoFar
    /\ issued = [provider \in Providers |-> CurrentCount(api_call_counts, provider)]
    /\ recorded = issued

NextBudget ==
    \/ \E j \in Jobs : \E provider \in Providers : BeginCall(j, provider)
    \/ \E j \in Jobs : ResponseOk(j)
    \/ \E j \in Jobs : ResponseError(j)
    \/ ClockTick

SpecBudget == InitBudget /\ [][NextBudget]_vars

(***************************************************************************)
(* SpecStages: one collection stage run on its own, on a day on which a    *)
(* provider's count may be at its limit or one short of it                 *)
(***************************************************************************)
StageCounts ==
    {NoCounts,
     [k \in {"alphavantage"} |-> AlphavantageDailyLimit],
     [k \in {"finnhub"} |-> FinnhubDailyLimit - 1]}

InitStages ==
    /\ InitPortfolio
    /\ prices = [s \in Symbols |-> IF s = "AAA" THEN TwoBook ELSE OneBook]
    /\ InitStrategy
    /\ InitCalls
    /\ InitPass
    /\ InitJobs
    /\ api_call_counts \in StageCounts
    /\ issued = [provider \in Providers |-> CurrentCount(api_call_counts, provider)]
    /\ recorded = issued

NextStages ==
    \/ StartStage("market_news", <<NoSymbol>>)
    \/ \E stage \in {"intraday", "daily", "fundamentals"} :
           \E symbols \in SymbolLists(MaxStageSymbols) : StartStage(stage, symbols)
    \/ StageCall
    \/ StageResponseOk
    \/ StageResponseError

SpecStages == InitStages /\ [][NextStages]_vars

(***************************************************************************)
(* SpecDenied: the same with a short list and the clock advancing          *)
(***************************************************************************)
NextDenied ==
    \/ StartStage("market_news", <<NoSymbol>>)
    \/ \E stage \in {"intraday", "daily", "fundamentals"} :
           \E symbols \in SymbolLists(MaxCycleSymbols + 1) : StartStage(stage, symbols)
    \/ StageCall
    \/ StageResponseOk
    \/ StageResponseError
    \/ ClockTick

SpecDenied == InitStages /\ [][NextDenied]_vars

(***************************************************************************)
(* SpecCycle: run_full_collection_cycle                                    *)
(***************************************************************************)
NextCycle ==
    \/ StartCycle
    \/ \E symbols \in SymbolLists(MaxCycleSymbols) : NextStage(symbols)
    \/ \E current_hour \in Hours :
           \E symbols \in SymbolLists(MaxCycleSymbols) : ReadHour(current_hour, symbols)
    \/ StageCall
    \/ StageResponseOk
    \/ StageResponseError

SpecCycle == InitStages /\ [][NextCycle]_vars

(***************************************************************************)
(* SpecCollect: a stage run on its own or a full cycle, as a background    *)
(* task that is scheduled until it returns and whose every POST is         *)
(* answered, fails or times out                                            *)
(***************************************************************************)
NextCollect ==
    \/ StartStage("market_news", <<NoSymbol>>)
    \/ \E stage \in {"intraday", "daily", "fundamentals"} :
           \E symbols \in SymbolLists(MaxStageSymbols) : StartStage(stage, symbols)
    \/ StartCycle
    \/ \E symbols \in SymbolLists(MaxCycleSymbols) : NextStage(symbols)
    \/ \E current_hour \in Hours :
           \E symbols \in SymbolLists(MaxCycleSymbols) : ReadHour(current_hour, symbols)
    \/ StageCall
    \/ StageResponseOk
    \/ StageResponseError

SpecCollect == InitStages /\ [][NextCollect]_vars /\ WF_vars(NextCollect)

(***************************************************************************)
(* SpecPipeline: a strategy-engine run and signal-processing passes over a *)
(* portfolio that holds one position fewer than the risk limit allows      *)
(***************************************************************************)
SymbolPool ==
    <<"F01", "F02", "F03", "F04", "F05", "F06", "F07", "F08", "F09", "F10",
      "F11", "F12", "F13", "F14", "F15", "F16", "F17", "F18", "F19", "F20",
      "F21", "F22", "F23", "F24">>

\* the symbols already held: as many as the limit leaves room for one more
HeldSymbols == {SymbolPool[k] : k \in 1..(MaxActivePositions - 1)}

PipelineBooks ==
    {[s \in Symbols \cup HeldSymbols |-> IF s \in Symbols THEN p[s] ELSE OneBook] :
        p \in PriceInits}

InitPipeline ==
    /\ now = 0
    /\ utc_offset = 0
    /\ prices \in PipelineBooks
    /\ active = [id \in {<<s, 0>> : s \in HeldSymbols} |-> ValuedPosition(id[1], prices)]
    /\ history = EmptyStore
    /\ transactions = EmptyStore
    /\ tradesDone = 0
    /\ lastTrade = NoTrade
    /\ lots = [s \in Symbols |-> NoLots]
    /\ recs \in SeqsUpTo(EngineRecs, MaxRecs)
    /\ se_signals = EmptyStore
    /\ lastSignal = NoSignalCall
    /\ run = IdleRun
    /\ InitCalls
    /\ InitPass
    /\ InitOrchestrator

NextPipeline ==
    \/ StartRun
    \/ RunStep
    \/ StartPass
    \/ PassStep
    \/ Tick

SpecPipeline == InitPipeline /\ [][NextPipeline]_vars

(***************************************************************************)
(* SpecLimit: the same, with nothing but buy recommendations at the        *)
(* threshold in the log                                                    *)
(***************************************************************************)
BuyRecs == {r \in EngineRecs : r.recommendation = "buy"
                                 /\ r.confidence_score = min_confidence_threshold}

InitLimit ==
    /\ InitPipeline
    /\ prices["AAA"] = TwoBook
    /\ recs \in SeqsUpTo(BuyRecs, MaxRecs)

SpecLimit == InitLimit /\ [][NextPipeline]_vars

(***************************************************************************)
(* SpecPasses: signal-processing passes over signals that earlier runs of  *)
(* the strategy engine stored, some of them at the edges of the window     *)
(***************************************************************************)
\* when the earlier runs stored their signals: a day ago to the second, a
\* second less than a day ago, a second more than the window less the
\* greatest time-zone offset ago, and a second ago
EarlierRuns == {0 - SignalLifetime, 1 - SignalLifetime, 50400 - SignalWindow - 1, 0 - 1}

\* the signal generate_trade_signal stored at time t for a buy of symbol
StoredBuy(symbol, quantity, t) ==
    NewSignal([symbol |-> symbol, recommendation |-> "buy",
               confidence_score |-> min_confidence_threshold],
              quantity, GetCurrentPrice(symbol), t)

StoredSignals ==
    {[id \in {SignalId("AAA", t)} |-> StoredBuy("AAA", q, t)] :
        t \in EarlierRuns, q \in Quantities}
    \cup
    {[id \in {SignalId("AAA", t), SignalId("BBB", 0 - 1)} |->
         IF id[1] = "AAA" THEN StoredBuy("AAA", q, t) ELSE StoredBuy("BBB", 1, 0 - 1)] :
        t \in EarlierRuns, q \in Quantities}

InitPasses ==
    /\ now = 0
    /\ utc_offset \in UtcOffsets
    /\ prices = [s \in Symbols |-> IF s = "AAA" THEN TwoBook ELSE OneBook]
    /\ active = EmptyStore
    /\ history = EmptyStore
    /\ transactions = EmptyStore
    /\ tradesDone = 0
    /\ lastTrade = NoTrade
    /\ lots = [s \in Symbols |-> NoLots]
    /\ recs = << >>
    /\ se_signals \in StoredSignals
    /\ lastSignal = NoSignalCall
    /\ run = IdleRun
    /\ InitCalls
    /\ InitPass
    /\ InitOrchestrator

NextPasses ==
    \/ StartPass
    \/ PassStep
    \/ Tick

SpecPasses == InitPasses /\ [][NextPasses]_vars

(***************************************************************************)
(* Claims                                                                  *)
(***************************************************************************)
\* the position that the last execute_trade read, and its symbol
TradedSymbol == lastTrade.signal.symbol
ReadPosition == lastTrade.positions[1]

\* whether a number is one the store's float field can hold exactly
HoldsExactly(x) == ToFloat(x) = x

\* C1: after buys of one symbol, one after another and starting with no
\* active position, the symbol has a single active position whose quantity is
\* the sum of the bought quantities and whose average cost is the weighted
\* mean sum(q_i * p_i) / sum(q_i) of the buys, in whatever order they came;
\* the mean is compared where the position's field can hold it exactly
C1_WeightedMeanOfBuys ==
    \A s \in Symbols :
        (lots[s].pure /\ lots[s].q > 0) =>
            /\ Cardinality(QueryActivePositions(active, s)) = 1
            /\ \A id \in QueryActivePositions(active, s) :
                /\ active[id].quantity = lots[s].q
                /\ HoldsExactly(Rat(lots[s].qp, lots[s].q)) =>
                      active[id].average_cost = Rat(lots[s].qp, lots[s].q)

\* the quantity half of C1, which the code does keep
C1_QuantityIsSum ==
    \A s \in Symbols :
        (lots[s].pure /\ lots[s].q > 0) =>
            \A id \in QueryActivePositions(active, s) : active[id].quantity = lots[s].q

FullCloseApplied ==
    /\ lastTrade.transaction_id # NoId
    /\ lastTrade.signal.signal_type = "sell"
    /\ lastTrade.positions # << >>
    /\ lastTrade.signal.quantity >= ReadPosition.data.quantity

\* C3: after a sell of at least the active position's quantity, the position
\* is in the history partition, once, with status closed, quantity 0 and
\* closed-at the execution time, and the symbol has no record in the active
\* partition
C3_FullCloseMovesToHistory ==
    FullCloseApplied =>
        /\ ReadPosition.id \in DOMAIN history
        /\ history[ReadPosition.id] =
              [ReadPosition.data EXCEPT !.status = "closed", !.quantity = 0,
                                        !.closed_at = lastTrade.executed_at]
        /\ Cardinality({h \in DOMAIN history :
                          /\ history[h].symbol = TradedSymbol
                          /\ history[h].opened_at = ReadPosition.data.opened_at}) = 1
        /\ {a \in DOMAIN active : active[a].symbol = TradedSymbol} = {}

C3_Witness ==
    /\ FullCloseApplied
    /\ lastTrade.signal.quantity > ReadPosition.data.quantity
    /\ ReadPosition.data.market_value # NoPrice

PartialSellApplied ==
    /\ lastTrade.transaction_id # NoId
    /\ lastTrade.signal.signal_type = "sell"
    /\ lastTrade.positions # << >>
    /\ lastTrade.signal.quantity < ReadPosition.data.quantity

\* C4: a sell of less than the active position's quantity Q leaves the
\* position in the active partition with status active and quantity Q - q,
\* changes no other field of it (average cost, opened-at) and writes nothing
\* to the history partition
C4_PartialSellFrame ==
    [][(tradesDone' = tradesDone + 1 /\ PartialSellApplied') =>
          /\ ReadPosition'.id \in DOMAIN active'
          /\ active'[ReadPosition'.id] =
                [active[ReadPosition'.id] EXCEPT
                    !.quantity = @ - lastTrade'.signal.quantity]
          /\ active'[ReadPosition'.id].status = "active"
          /\ active'[ReadPosition'.id].average_cost = active[ReadPosition'.id].average_cost
          /\ active'[ReadPosition'.id].opened_at = active[ReadPosition'.id].opened_at
          /\ history' = history]_vars

C4_Witness ==
    /\ PartialSellApplied
    /\ \E id \in DOMAIN active :
          /\ active[id].symbol = TradedSymbol
          /\ active[id].quantity = ReadPosition.data.quantity - lastTrade.signal.quantity
          /\ active[id].quantity > 0

\* the recommendation of the last generate_trade_signal call and its result
Called == lastSignal # NoSignalCall
CalledRec == lastSignal.recommendation
HasPriceRecord(symbol) == \E d \in Dates : prices[symbol][d] # NoPrice
EveryCloseNonZero(symbol) == \A d \in Dates : prices[symbol][d] # 0
ActiveRecords(symbol) == {id \in DOMAIN active : active[id].symbol = symbol}
BuyAtThreshold ==
    /\ Called
    /\ CalledRec.recommendation = "buy"
    /\ CalledRec.confidence_score = min_confidence_threshold
    /\ HasPriceRecord(CalledRec.symbol)
    /\ ActiveRecords(CalledRec.symbol) = {}
    /\ CheckPortfolioRiskLimits(active)
ProducedBuy ==
    /\ lastSignal.signal # << >>
    /\ lastSignal.signal[1].signal_type = "buy"
    /\ lastSignal.signal[1].symbol = CalledRec.symbol
BelowThresholdRejected ==
    (Called /\ CalledRec.recommendation = "buy"
            /\ CalledRec.confidence_score < min_confidence_threshold)
        => lastSignal.signal = << >>

\* C7: a buy recommendation with confidence below 80 never gets a signal,
\* and one with confidence exactly 80 gets a buy signal when the symbol has a
\* price record, none of its price records has a zero close, it has no active
\* position and the portfolio limit check passes
C7_BuyThreshold ==
    /\ BelowThresholdRejected
    /\ (BuyAtThreshold /\ EveryCloseNonZero(CalledRec.symbol)) => ProducedBuy

\* C7 as stated: any price record is enough for the buy signal at confidence 80
C7_AnyPriceRecord ==
    /\ BelowThresholdRejected
    /\ BuyAtThreshold => ProducedBuy

C7_Witness ==
    /\ BuyAtThreshold
    /\ EveryCloseNonZero(CalledRec.symbol)
    /\ ProducedBuy
    /\ DOMAIN active # {}

\* C8: a buy recommendation for a symbol that has a record in the active
\* partition never gets a signal, whether or not the record's market value
\* has been set
C8_NoBuyWhileHeld ==
    (Called /\ CalledRec.recommendation = "buy" /\ ActiveRecords(CalledRec.symbol) # {})
        => lastSignal.signal = << >>

\* C9: a sell recommendation for a symbol with a price record and an active
\* position of quantity Q gets a sell signal of quantity Q, at every
\* confidence and whatever the position's market value; a sell recommendation
\* for a symbol with no active position gets no signal
C9_SellClosesPosition ==
    (Called /\ CalledRec.recommendation = "sell") =>
        /\ ActiveRecords(CalledRec.symbol) = {} => lastSignal.signal = << >>
        /\ \A id \in ActiveRecords(CalledRec.symbol) :
              HasPriceRecord(CalledRec.symbol) =>
                  /\ lastSignal.signal # << >>
                  /\ lastSignal.signal[1].signal_type = "sell"
                  /\ lastSignal.signal[1].quantity = active[id].quantity

\* the sell signals the code does produce carry the position's quantity
C9_ValuedPositionsOnly ==
    (Called /\ CalledRec.recommendation = "sell" /\ lastSignal.signal # << >>) =>
        \E id \in ActiveRecords(CalledRec.symbol) :
            /\ active[id].market_value > 0
            /\ lastSignal.signal[1].quantity = active[id].quantity

\* C10: one run of process_ml_recommendations produces and stores at most one
\* signal per symbol, however many recommendations of the symbol it reads
C10_OneSignalPerSymbol ==
    /\ \A j, k \in DOMAIN run.signals :
          run.signals[j].symbol = run.signals[k].symbol => j = k
    /\ \A j, k \in DOMAIN run.stored :
          run.stored[j][1] = run.stored[k][1] => j = k
    /\ \A s \in Symbols : Cardinality({id \in DOMAIN se_signals : id[1] = s}) <= 1

C10_Witness ==
    /\ run.pc = "done"
    /\ \E j, k \in DOMAIN run.recommendations :
          /\ j # k
          /\ run.recommendations[j].symbol = run.recommendations[k].symbol
          /\ GenerateTradeSignal(active, run.recommendations[j], now) # << >>
          /\ GenerateTradeSignal(active, run.recommendations[k], now) # << >>
          /\ Len(run.signals) = 1
          /\ Cardinality(DOMAIN se_signals) = 1

\* C2: in every state of the position store, whatever the interleaving of
\* the execute_trade calls in flight, a symbol has at most one record with
\* status active in the active partition
C2_OneActivePerSymbol ==
    \A s \in Symbols : Cardinality(QueryActivePositions(active, s)) <= 1

Checked == lastCheck # NoCheck

\* C5: can_make_api_call never returns true when the calls recorded for the
\* provider since the last reset have reached its daily quota, and returns
\* true when the call itself has just reset the counters
C5_BudgetCheck ==
    Checked =>
        /\ lastCheck.result => lastCheck.at < DAILY_LIMITS[lastCheck.provider]
        /\ lastCheck.at >= DAILY_LIMITS[lastCheck.provider] => ~lastCheck.result
        /\ lastCheck.reset => lastCheck.result

C5_Witness ==
    /\ Checked
    /\ lastCheck.reset
    /\ lastCheck.before >= DAILY_LIMITS[lastCheck.provider]
    /\ lastCheck.result
    /\ issued[lastCheck.provider] = 1

\* a check that refuses: the provider's recorded calls are at its quota
C5_Refused ==
    /\ Checked
    /\ ~lastCheck.result
    /\ lastCheck.at = DAILY_LIMITS[lastCheck.provider]

\* C6: whatever the interleaving of the orchestration jobs, the calls sent
\* to a provider between two counter resets never exceed its daily quota
C6_QuotaNeverExceeded ==
    \A provider \in Providers : issued[provider] <= DAILY_LIMITS[provider]

\* two jobs past the budget check for the same provider's last call
C6_BothPastTheCheck ==
    \E j, k \in Jobs :
        /\ j # k
        /\ jobs[j].pc = "awaiting" /\ jobs[k].pc = "awaiting"
        /\ jobs[j].provider = jobs[k].provider
        /\ recorded[jobs[j].provider] = DAILY_LIMITS[jobs[j].provider] - 1

\* the place of a symbol's most recent recommendation in the list a run read
\* (the list is ordered by created_at, oldest first)
MostRecentOf(recommendations, symbol) ==
    CHOOSE j \in DOMAIN recommendations :
        /\ recommendations[j].symbol = symbol
        /\ \A k \in DOMAIN recommendations :
              recommendations[k].symbol = symbol => k <= j

\* C11: within one run of process_ml_recommendations every signal comes from
\* the most recent recommendation of its symbol; an older recommendation is
\* never turned into a signal, also when the most recent one gave no signal
C11_OnlyMostRecentEvaluated ==
    \A k \in DOMAIN run.signals :
        LET latest == run.recommendations[MostRecentOf(run.recommendations,
                                                       run.signals[k].symbol)]
        IN  /\ run.signals[k].signal_type = latest.recommendation
            /\ run.signals[k].confidence = latest.confidence_score

Produced == Called /\ lastSignal.signal # << >>

\* C12: every signal generate_trade_signal produces has kind buy or sell (a
\* hold recommendation produces none), a quantity greater than 0, and an
\* expiry later than its creation time: the creation time plus 24 hours
C12_SignalWellFormed ==
    /\ (Called /\ CalledRec.recommendation = "hold") => lastSignal.signal = << >>
    /\ Produced =>
          /\ lastSignal.signal[1].signal_type \in {"buy", "sell"}
          /\ lastSignal.signal[1].quantity > 0
          /\ lastSignal.signal[1].expires_at > lastSignal.signal[1].created_at
          /\ lastSignal.signal[1].expires_at =
                lastSignal.signal[1].created_at + SignalLifetime

\* what of C12 the code keeps: kind, quantity, and expiry after creation
C12_KindQuantityExpiryLater ==
    /\ (Called /\ CalledRec.recommendation = "hold") => lastSignal.signal = << >>
    /\ Produced =>
          /\ lastSignal.signal[1].signal_type \in {"buy", "sell"}
          /\ lastSignal.signal[1].quantity > 0
          /\ lastSignal.signal[1].expires_at > lastSignal.signal[1].created_at

Traded == lastTrade # NoTrade
Executed == Traded /\ lastTrade.transaction_id # NoId
CarriesLimit == lastTrade.signal.price_limit \notin {NoPrice, NullPrice}
Closes(symbol) == {prices[symbol][d] : d \in Dates} \ {NoPrice}
\* a market price whichever record is read: records exist, none with close 0
HasMarketPrice(symbol) == HasPriceRecord(symbol) /\ EveryCloseNonZero(symbol)

\* C13: execute_trade executes at the signal's limit price when the signal
\* carries one, also when the symbol has no market price record, and at the
\* market price otherwise; it returns no transaction id only when the signal
\* carries no limit price and the symbol has no market price (a symbol whose
\* records include a close of 0 is left out of the market price cases)
C13_ExecutionPrice ==
    Traded =>
        /\ CarriesLimit =>
              /\ Executed
              /\ transactions[lastTrade.transaction_id].price =
                    lastTrade.signal.price_limit
        /\ (~CarriesLimit /\ HasMarketPrice(TradedSymbol)) =>
              /\ Executed
              /\ transactions[lastTrade.transaction_id].price \in Closes(TradedSymbol)
        /\ ~Executed => (~CarriesLimit /\ ~HasMarketPrice(TradedSymbol))

\* what of C13 the code keeps: a trade that is executed takes the limit price
\* if the signal has one, and a market close otherwise
C13_PriceOfExecutedTrade ==
    Executed =>
        transactions[lastTrade.transaction_id].price =
            IF CarriesLimit THEN lastTrade.signal.price_limit
            ELSE GetCurrentPrice(TradedSymbol)

\* C14: in every state of the position store, the states between the store
\* calls of a full close included, a position id is in at most one of the
\* active and the history partition
C14_OnePartitionPerPosition == DOMAIN active \cap DOMAIN history = {}

\* a full close between its two store calls
C14_MidClose == \E p \in Procs : calls[p].pc = "delete_position"

\* the same, for the states in which no full close is between its store calls
C14_AfterTheMove == ~C14_MidClose => C14_OnePartitionPerPosition

\* C15: the transaction ledger is append-only: an execute_trade call that
\* returns a transaction id adds one record to the ledger and leaves every
\* record already stored as it was
C15_LedgerAppendOnly ==
    [][(tradesDone' = tradesDone + 1 /\ Executed') =>
          /\ Cardinality(DOMAIN transactions') = Cardinality(DOMAIN transactions) + 1
          /\ \A id \in DOMAIN transactions :
                id \in DOMAIN transactions' /\ transactions'[id] = transactions[id]]_vars

\* the same for the calls whose transaction id is not yet in the ledger
C15_AppendOnlyOnFreshId ==
    [][(tradesDone' = tradesDone + 1 /\ Executed'
            /\ lastTrade'.transaction_id \notin DOMAIN transactions) =>
          /\ Cardinality(DOMAIN transactions') = Cardinality(DOMAIN transactions) + 1
          /\ \A id \in DOMAIN transactions :
                id \in DOMAIN transactions' /\ transactions'[id] = transactions[id]]_vars

\* C16: after any sequence of strategy-engine runs and signal-processing
\* passes, the number of active positions is at most 20
C16_ActivePositionsWithinLimit ==
    Cardinality(ActiveIds(active)) <= MaxActivePositions

\* the run itself never lets through a buy while the limit is reached
C16_NoBuySignalAtLimit ==
    \A k \in DOMAIN run.signals :
        run.signals[k].signal_type = "buy"
            => Cardinality(ActiveIds(active)) - tradesDone < MaxActivePositions

\* the value of the order a produced buy signal sizes: its quantity times the
\* price the sizing divided by
SizedOrderValue == lastSignal.signal[1].quantity * lastSignal.signal[1].price_limit

\* C17: for every buy signal the strategy engine produces, the quantity times
\* the sizing price is at most 10% of the value get_portfolio_value returns
C17_OrderWithinTenPercent ==
    (Produced /\ lastSignal.signal[1].signal_type = "buy")
        => SizedOrderValue * 10 <= GetPortfolioValue(active)

\* the same for the orders of more than the one share the sizing never goes
\* below
C17_WithinTenPercentAboveOneShare ==
    (Produced /\ lastSignal.signal[1].signal_type = "buy"
        /\ lastSignal.signal[1].quantity > 1)
        => SizedOrderValue * 10 <= GetPortfolioValue(active)

\* max(1, floor(portfolioValue * min(0.10, c/1000) * min(c/100, 1) / price)) in
\* exact arithmetic
ExactPositionSize(portfolio_value, current_price, confidence) ==
    LET allocation == RMul(RMin(Rat(1, 10), Rat(confidence, 1000)),
                           RMin(Rat(confidence, 100), RInt(1)))
    IN  AtLeastOne(IntOf(RDivInt(RMul(RInt(portfolio_value), allocation), current_price)))

\* C18: calculate_position_size returns
\* max(1, floor(portfolioValue * min(0.10, confidence/1000) * min(confidence/100, 1) / price))
\* for every price above 0 and every confidence in 0..100
C18_PositionSizeFormula ==
    (Produced /\ lastSignal.signal[1].signal_type = "buy")
        => lastSignal.signal[1].quantity
               = ExactPositionSize(GetPortfolioValue(active),
                                   lastSignal.signal[1].price_limit,
                                   CalledRec.confidence_score)

\* the size is never more than one share away from that value
C18_WithinOneShare ==
    (Produced /\ lastSignal.signal[1].signal_type = "buy")
        => Abs(lastSignal.signal[1].quantity
                   - ExactPositionSize(GetPortfolioValue(active),
                                       lastSignal.signal[1].price_limit,
                                       CalledRec.confidence_score)) <= 1

\* confidence 85, price 100 and the default portfolio value give 7 shares
C18_WorkedExample ==
    CalculatePositionSize(EmptyStore, 100, 85) = 7

\* C19: calculate_stop_loss and calculate_take_profit return entry*0.92 and
\* entry*1.15 for a buy, entry*1.08 and entry*0.85 for a sell and the entry
\* price itself for any other side, so that a buy signal has
\* stop-loss < entry < take-profit and a sell signal
\* take-profit < entry < stop-loss; entry 100 on a buy gives 92 and 115
C19_StopLossTakeProfit ==
    /\ Produced =>
         LET signal == lastSignal.signal[1]
             entry == signal.price_limit
         IN  /\ signal.signal_type = "buy" =>
                  /\ signal.stop_loss = Rat(entry * 92, 100)
                  /\ signal.take_profit = Rat(entry * 115, 100)
                  /\ RLess(signal.stop_loss, RInt(entry))
                  /\ RLess(RInt(entry), signal.take_profit)
             /\ signal.signal_type = "sell" =>
                  /\ signal.stop_loss = Rat(entry * 108, 100)
                  /\ signal.take_profit = Rat(entry * 85, 100)
                  /\ RLess(signal.take_profit, RInt(entry))
                  /\ RLess(RInt(entry), signal.stop_loss)
    /\ \A entry \in 1..MaxPrice :
         /\ CalculateStopLoss(entry, "hold") = RInt(entry)
         /\ CalculateTakeProfit(entry, "hold") = RInt(entry)
    /\ CalculateStopLoss(100, "buy") = RInt(92)
    /\ CalculateTakeProfit(100, "buy") = RInt(115)

\* a sell signal was produced, with its stop loss above the entry price
C19_Witness ==
    /\ Produced
    /\ lastSignal.signal[1].signal_type = "sell"
    /\ RLess(RInt(lastSignal.signal[1].price_limit), lastSignal.signal[1].stop_loss)

\* the close of the record with the greatest date, for a symbol with records
LatestClose(symbol) ==
    LET ds == {d \in Dates : prices[symbol][d] # NoPrice}
    IN  prices[symbol][CHOOSE d \in ds : \A o \in ds : o <= d]

SeveralRecords(symbol) ==
    Cardinality({d \in Dates : prices[symbol][d] # NoPrice}) >= 2

\* C20: the current price used for signal generation is the close of the
\* symbol's most recent daily price record, whenever the symbol has two or
\* more records with different dates
C20_SignalAtLatestClose ==
    (Produced /\ SeveralRecords(CalledRec.symbol))
        => lastSignal.signal[1].price_limit = LatestClose(CalledRec.symbol)

\* C20, for trade execution: a trade executed without a limit price is
\* executed at that close
C20_ExecutionAtLatestClose ==
    (Executed /\ lastTrade.signal.price_limit = NoPrice
        /\ SeveralRecords(lastTrade.signal.symbol))
        => transactions[lastTrade.transaction_id].price
               = LatestClose(lastTrade.signal.symbol)

\* what the code uses instead: the close of the record with the least date
C20_SignalAtOldestClose ==
    Produced => lastSignal.signal[1].price_limit = GetCurrentPrice(CalledRec.symbol)

\* this step is an execute_trade call on a sell signal for a symbol that has
\* no active position and whose execution price resolves
SellWithoutPosition ==
    /\ tradesDone' = tradesDone + 1
    /\ lastTrade'.signal.signal_type = "sell"
    /\ QueryActivePositions(active, lastTrade'.signal.symbol) = {}
    /\ HasMarketPrice(lastTrade'.signal.symbol)
    /\ lastTrade'.signal.price_limit # NullPrice

CreatedLocal(signal) == signal.expires_at - SignalLifetime

InWindow(signal, t) ==
    /\ signal.expires_at > t
    /\ signal.created_at >= t - SignalWindow
    /\ t - CreatedLocal(signal) < SignalWindow

\* C22: every signal process_trade_signals passes to execute_trade was, at
\* the time the pass read the signals, unexpired and created at most 24
\* hours earlier
C22_ExecutedWithinWindow ==
    [][(tradesDone' = tradesDone + 1) => InWindow(lastTrade'.signal, pass.current_time)]_vars

\* a pass has executed a signal while the store held one that was outside
\* the window when the pass read the signals
C22_Witness ==
    /\ Traded
    /\ pass.pc = "done"
    /\ \E id \in DOMAIN se_signals : ~InWindow(se_signals[id], pass.current_time)

\* the quantity held of a symbol in the active partition
HeldQuantity(symbol) ==
    IF ReadPositions(active, symbol) = << >> THEN 0
    ELSE ReadPositions(active, symbol)[1].data.quantity

\* the store holds one signal, a buy that stays inside the window for as
\* long as the clock runs
OneLastingBuy ==
    /\ Cardinality(DOMAIN se_signals) = 1
    /\ \A id \in DOMAIN se_signals :
          /\ se_signals[id].signal_type = "buy"
          /\ InWindow(se_signals[id], MaxTime)

TheSignal == se_signals[CHOOSE id \in DOMAIN se_signals : TRUE]

\* C23: a signal that stays unexpired and inside the window is executed by
\* every pass: after k passes it has been executed k times, and when the
\* passes ran at distinct seconds (k transaction ids) there are k buy
\* transactions and the position's quantity has grown by k times the
\* signal's quantity
C23_ExecutedByEveryPass ==
    (OneLastingBuy /\ pass.pc # "loop") =>
        /\ tradesDone = pass.passes
        /\ Cardinality(DOMAIN transactions) = pass.passes =>
              /\ \A x \in DOMAIN transactions :
                    /\ transactions[x].transaction_type = "buy"
                    /\ transactions[x].quantity = TheSignal.quantity
              /\ HeldQuantity(TheSignal.symbol) = pass.passes * TheSignal.quantity

\* two passes at distinct seconds have executed the one signal twice
C23_Witness ==
    /\ OneLastingBuy
    /\ pass.pc = "done"
    /\ pass.passes = 2
    /\ Cardinality(DOMAIN transactions) = 2
    /\ TheSignal.quantity = MaxQty
    /\ HeldQuantity(TheSignal.symbol) = 2 * MaxQty

\* the second at which a signal was stored: its expiry less the lifetime
StoredAt(signal) == signal.expires_at - SignalLifetime

\* the run before the last one returned a signal
EarlierRunStored == run.runs >= 2 /\ run.pc = "done" /\ run.returned # << >>

\* C24: a second run of process_ml_recommendations over the same stored
\* recommendation, with the symbol passing the filters as before, produces a
\* signal again, and when the two runs store at distinct seconds the store
\* holds two distinct signal documents for the symbol
C24_SecondRunStoresAgain ==
    EarlierRunStored =>
        /\ run.signals # << >>
        /\ run.signals[1].symbol = run.returned[1].symbol
        /\ StoredAt(run.signals[1]) # StoredAt(run.returned[1]) =>
              LET first == SignalId(run.returned[1].symbol, StoredAt(run.returned[1]))
                  second == SignalId(run.signals[1].symbol, StoredAt(run.signals[1]))
              IN  /\ first # second
                  /\ {first, second} \subseteq DOMAIN se_signals
                  /\ se_signals[first] = run.returned[1]
                  /\ se_signals[second] = run.signals[1]

\* two runs at distinct seconds have stored a signal each
C24_Witness ==
    /\ EarlierRunStored
    /\ run.signals # << >>
    /\ StoredAt(run.signals[1]) # StoredAt(run.returned[1])
    /\ Cardinality(DOMAIN se_signals) = 2

\* a store of n active positions, n up to the size of the symbol pool
PoolStore(n) ==
    [id \in {<<SymbolPool[k], 0>> : k \in 1..n} |->
        [symbol |-> id[1], status |-> "active", quantity |-> 1]]

\* how many positions of the active partition have status active
ActiveCount == Cardinality({id \in DOMAIN active : active[id].status = "active"})

RiskCheckOverCounts ==
    \A n \in 0..Len(SymbolPool) : CheckPortfolioRiskLimits(PoolStore(n)) <=> n <= 19

\* C25: check_portfolio_risk_limits returns true for every count of active
\* positions from 0 to 19 and false for every count from 20 on
C25_RiskLimitAtTwenty ==
    /\ CheckPortfolioRiskLimits(active) <=> ActiveCount < 20
    /\ RiskCheckOverCounts

\* with 20 positions held, a buy recommendation at the threshold for an
\* unheld symbol with a price was turned down
C25_Witness ==
    /\ ActiveCount = 20
    /\ ~CheckPortfolioRiskLimits(active)
    /\ Called
    /\ CalledRec.recommendation = "buy"
    /\ CalledRec.confidence_score >= min_confidence_threshold
    /\ HasMarketPrice(CalledRec.symbol)
    /\ ActiveRecords(CalledRec.symbol) = {}
    /\ lastSignal.signal = << >>

\* the market value of the symbol's active position, 0 where there is no
\* position or no market value yet (a store of one position per symbol)
MarketValueOf(symbol) ==
    LET ids == {id \in DOMAIN active : active[id].symbol = symbol
                                        /\ active[id].status = "active"
                                        /\ active[id].market_value # NoPrice}
    IN  IF ids = {} THEN 0 ELSE active[CHOOSE id \in ids : TRUE].market_value

\* C26: get_portfolio_value returns the sum of the market values of the
\* active positions when that sum is not zero and 10000 when there is no
\* active position or the sum is zero; its result is never zero
C26_PortfolioValue ==
    LET total == MarketValueOf("AAA") + MarketValueOf("BBB")
    IN  /\ total # 0 => GetPortfolioValue(active) = total
        /\ total = 0 => GetPortfolioValue(active) = 10000
        /\ active = EmptyStore => GetPortfolioValue(active) = 10000
        /\ GetPortfolioValue(active) # 0

\* a buy was sized on a portfolio that holds a position without market value
\* and nothing else: the value used was the default
C26_Witness ==
    /\ Produced
    /\ lastSignal.signal[1].signal_type = "buy"
    /\ active # EmptyStore
    /\ \A id \in DOMAIN active : active[id].market_value = NoPrice
    /\ GetPortfolioValue(active) = DefaultPortfolioValue

\* C27: after any sequence of execute_trade calls with positive quantities,
\* every record of the active partition has status active and a quantity
\* above 0
C27_ActiveRecordsHeld ==
    \A id \in DOMAIN active :
        /\ active[id].status = "active"
        /\ active[id].quantity > 0

\* a sell of exactly the quantity held has brought a position to 0: the
\* record is in the history partition and the symbol has none in the active one
C27_Witness ==
    /\ FullCloseApplied
    /\ lastTrade.signal.quantity = ReadPosition.data.quantity
    /\ history[ReadPosition.id].quantity = 0
    /\ ActiveRecords(TradedSymbol) = {}

\* every call has run to its end and has stored its transaction
AllCallsDone == \A p \in Procs : calls[p].pc = "done" /\ calls[p].txn # << >>

\* every call read the same position, before any of them wrote
SameSnapshot ==
    /\ \A p \in Procs : calls[p].positions # << >>
    /\ \A p, q \in Procs : calls[p].positions = calls[q].positions
    /\ calls[1].positions[1].data = OpenedPosition("AAA", prices)

\* the shares bought by calls 1..n together
RECURSIVE QuantityBought(_)
QuantityBought(n) ==
    IF n = 0 THEN 0 ELSE calls[n].txn[1].quantity + QuantityBought(n - 1)

\* C28: buys that run concurrently against an existing position and read the
\* same snapshot of it leave the position as the last writer computed it:
\* quantity old + q of one call, less than old plus the quantities of all
\* the calls, with every call's transaction id in the ledger
C28_LastWriterWins ==
    (AllCallsDone /\ SameSnapshot) =>
        LET snapshot == calls[1].positions[1]
        IN  /\ \E p \in Procs :
                  /\ active[snapshot.id].quantity
                         = snapshot.data.quantity + calls[p].txn[1].quantity
                  /\ active[snapshot.id].average_cost
                         = NewAverageCost(snapshot.data.quantity,
                                          snapshot.data.average_cost, calls[p].txn[1])
            /\ active[snapshot.id].quantity
                   < snapshot.data.quantity + QuantityBought(MaxProcs)
            /\ \A p \in Procs :
                  TransactionId(calls[p].txn[1], calls[p].txn[1].executed_at)
                      \in DOMAIN transactions

\* the weighted mean of the position read and the lots of calls 1 and 2
MeanOfThreeLots ==
    LET snapshot == calls[1].positions[1].data
        t1 == calls[1].txn[1]
        t2 == calls[2].txn[1]
    IN  RDivInt(RAdd(RMul(RInt(snapshot.quantity), snapshot.average_cost),
                     RInt(t1.quantity * t1.price + t2.quantity * t2.price)),
                snapshot.quantity + t1.quantity + t2.quantity)

\* two buys at distinct seconds, both in the ledger, and a position whose
\* average cost is not the weighted mean of the three lots
C28_Witness ==
    /\ AllCallsDone
    /\ SameSnapshot
    /\ calls[1].txn[1].executed_at # calls[2].txn[1].executed_at
    /\ \A p \in {1, 2} :
          transactions[TransactionId(calls[p].txn[1], calls[p].txn[1].executed_at)]
              = calls[p].txn[1]
    /\ active[calls[1].positions[1].id].average_cost # MeanOfThreeLots
    /\ active[calls[1].positions[1].id].average_cost # ToFloat(MeanOfThreeLots)

\* this step is a write of update_position_values
ValuationWrite == \E p \in Procs : calls[p].pc = "revalue" /\ calls'[p] # calls[p]

KeepsHoldings ==
    /\ DOMAIN active' = DOMAIN active
    /\ \A id \in DOMAIN active :
          /\ active'[id].quantity = active[id].quantity
          /\ active'[id].average_cost = active[id].average_cost
          /\ active'[id].status = active[id].status

\* C29: update_position_values never changes a position's quantity, average
\* cost or status, also when it runs interleaved with an execute_trade on
\* the same symbol
C29_ValuationKeepsHoldings == [][ValuationWrite => KeepsHoldings]_vars

\* the same for a valuation pass that runs with no trade in between
C29_ValuationAloneKeepsHoldings ==
    [][(active' # active /\ tradesDone' = tradesDone) => KeepsHoldings]_vars

\* call p has closed a position in full, and no other call has run
ClosedAlone(p) ==
    /\ calls[p].pc = "done"
    /\ FullClose(calls[p])
    /\ \A q \in Procs \ {p} : calls[q].pc = "idle"

\* C30: when the copy into history succeeds and the delete from active
\* fails, the record is in both partitions; when the copy fails, the delete
\* is still performed and the record is in neither
C30_FailedCloseDuplicatesOrLoses ==
    \A p \in Procs :
        ClosedAlone(p) =>
            LET id == calls[p].positions[1].id
            IN  /\ calls[p].failed = {"delete_document"} =>
                      id \in DOMAIN active /\ id \in DOMAIN history
                /\ calls[p].failed = {"upsert_document"} =>
                      id \notin DOMAIN active /\ id \notin DOMAIN history
                /\ calls[p].failed = {} =>
                      id \notin DOMAIN active /\ id \in DOMAIN history

\* the copy failed and the position is in neither partition
C30_Witness ==
    \E p \in Procs :
        /\ ClosedAlone(p)
        /\ calls[p].failed = {"upsert_document"}
        /\ active = EmptyStore
        /\ history = EmptyStore
        /\ transactions # EmptyStore

\* the delete failed and the position is in both partitions
C30_InBothPartitions ==
    \E p \in Procs :
        /\ ClosedAlone(p)
        /\ calls[p].failed = {"delete_document"}
        /\ calls[p].positions[1].id \in DOMAIN active \cap DOMAIN history

\* job j's outbound call ends in this step, whatever its outcome
CallEnds(j) == jobs[j].pc = "awaiting" /\ jobs'[j].pc = "ready"

\* this step raises the counter of the given provider by one and no other
CountsOneFor(provider) ==
    \A q \in Providers :
        CurrentCount(api_call_counts', q)
            = CurrentCount(api_call_counts, q) + (IF q = provider THEN 1 ELSE 0)

\* C31: every outbound call of call_service_endpoint raises its provider's
\* counter by exactly one when it ends, whether it succeeded or failed, and
\* leaves the counters of the other providers alone; a denied call changes
\* no counter
C31_EveryCallCounted ==
    [][/\ \A j \in Jobs : CallEnds(j) => CountsOneFor(jobs[j].provider)
       /\ (callsBegun' # callsBegun /\ ~lastCheck'.result)
              => api_call_counts' = api_call_counts]_vars

\* the same for the calls that are answered with success, and the denied ones
C31_SuccessfulCallCounted ==
    [][/\ \A j \in Jobs :
             (CallEnds(j) /\ recorded' # recorded) => CountsOneFor(jobs[j].provider)
       /\ (callsBegun' # callsBegun /\ ~lastCheck'.result)
              => api_call_counts' = api_call_counts]_vars

\* a call that failed has ended and its provider's counter is as it was
C31_FailedCallNotCounted ==
    \E provider \in Providers :
        /\ issued[provider] = 1
        /\ recorded[provider] = 0
        /\ CurrentCount(api_call_counts, provider) = 0
        /\ \A j \in Jobs : jobs[j].pc = "ready"

\* this step is a can_make_api_call
BudgetCheckStep == callsBegun' # callsBegun

\* this step resets the counters
ResetStep == last_reset' # last_reset \/ (api_call_counts' = NoCounts /\ api_call_counts # NoCounts)

\* C32: the counters are reset only inside can_make_api_call and only when a
\* full day has passed since the last reset; the reset empties the counters
\* of every provider and sets last_reset to the time of the check; between
\* two resets no provider's counter decreases
C32_DailyGlobalReset ==
    [][/\ ResetStep =>
             /\ BudgetCheckStep
             /\ clock - last_reset >= TicksPerDay
             /\ last_reset' = clock
             /\ \A q \in Providers : CurrentCount(api_call_counts', q) = 0
       /\ ~ResetStep =>
             \A q \in Providers :
                 CurrentCount(api_call_counts', q) >= CurrentCount(api_call_counts, q)
       /\ (BudgetCheckStep /\ clock - last_reset >= TicksPerDay) => ResetStep]_vars

\* a budget check for one provider has zeroed the count of another
C32_Witness ==
    /\ lastCheck.reset
    /\ last_reset = clock
    /\ \E q \in Providers \ {lastCheck.provider} :
          /\ CurrentCount(lastCheck.counts, q) > 0
          /\ CurrentCount(api_call_counts, q) = 0

\* the call attempts the stage has logged
Attempts == 1..Len(cycle.log)

\* the place in the stage's loop that follows call k of symbol i, or << >>
\* after the last call of the last symbol
PlaceAfter(e) ==
    IF e.k < Len(StageEndpoints(e.stage, e.provider)) THEN <<e.i, e.k + 1>>
    ELSE IF e.i + 1 < Len(cycle.symbols) THEN <<e.i + 1, 1>>
    ELSE << >>

\* C33: a call the budget check denies is not made: the symbol is not given
\* to another provider, the call is not attempted again, and the stage goes
\* on with the call that follows; in the stages that make one call per
\* symbol (market news, daily, fundamentals) the symbol gets no outbound call
C33_DeniedCallSkipped ==
    \A n \in Attempts :
        LET e == cycle.log[n]
        IN  e.outcome = "denied" =>
                /\ \A m \in Attempts \ {n} :
                      ~(cycle.log[m].stage = e.stage /\ cycle.log[m].i = e.i
                            /\ cycle.log[m].k = e.k)
                /\ \A m \in Attempts :
                      (cycle.log[m].stage = e.stage /\ cycle.log[m].i = e.i)
                          => cycle.log[m].provider = e.provider
                /\ e.provider = StageProviders(e.stage)[(e.i % Len(StageProviders(e.stage))) + 1]
                /\ e.stage # "intraday" =>
                      \A m \in Attempts :
                          (cycle.log[m].stage = e.stage /\ cycle.log[m].i = e.i) => m = n
                /\ n < Len(cycle.log) =>
                      <<cycle.log[n + 1].i, cycle.log[n + 1].k>> = PlaceAfter(e)
                /\ n = Len(cycle.log) =>
                      IF PlaceAfter(e) = << >> THEN cycle.pc = "done"
                      ELSE /\ cycle.pc \in {"loop", "awaiting"}
                           /\ <<cycle.i, cycle.k>> = PlaceAfter(e)

\* C33 as stated: a symbol with a denied call gets no outbound call at all
\* in the stage
C33_NoCallForDeniedSymbol ==
    \A n, m \in Attempts :
        (/\ cycle.log[n].outcome = "denied"
         /\ cycle.log[m].stage = cycle.log[n].stage
         /\ cycle.log[m].i = cycle.log[n].i) => cycle.log[m].outcome = "denied"

\* a daily stage whose first symbol was denied and whose second was called
C33_Witness ==
    /\ cycle.stage = "daily"
    /\ cycle.pc = "done"
    /\ Len(cycle.log) = 2
    /\ cycle.log[1].outcome = "denied"
    /\ cycle.log[1].provider = "alphavantage"
    /\ cycle.log[2].outcome = "ok"
    /\ cycle.log[2].provider = "finnhub"
    /\ cycle.log[2].symbol = "BBB"

\* an intraday symbol whose first call was denied and whose second call was
\* made, the counters having been reset in between
C33_CalledAfterDenial ==
    \E n \in Attempts :
        /\ n < Len(cycle.log)
        /\ cycle.log[n].outcome = "denied"
        /\ cycle.log[n + 1].i = cycle.log[n].i
        /\ cycle.log[n + 1].outcome = "ok"

\* the place of a stage in the order of the full cycle
StageIndex(stage) == CHOOSE n \in 1..Len(Stages) : Stages[n] = stage

\* C34: a full cycle begins its stages in the order market news, intraday,
\* daily, fundamentals, makes the calls of a stage only while that stage is
\* the last one begun, reads the hour after the daily stage, and begins the
\* fundamentals stage exactly when that hour is 9 or 15
C34_StagesInOrder ==
    cycle.full =>
        /\ cycle.begun = SubSeq(Stages, 1, Len(cycle.begun))
        /\ cycle.begun # << >> /\ cycle.stage = cycle.begun[Len(cycle.begun)]
        /\ \A n, m \in Attempts :
              n < m => StageIndex(cycle.log[n].stage) <= StageIndex(cycle.log[m].stage)
        /\ \A n \in Attempts :
              \E b \in 1..Len(cycle.begun) : cycle.begun[b] = cycle.log[n].stage
        /\ cycle.pc \in {"between", "hour"} =>
              \A n \in Attempts : cycle.log[n].stage # "fundamentals"
        /\ cycle.current_hour = NoHour =>
              /\ cycle.pc # "done"
              /\ Len(cycle.begun) <= 3
        /\ cycle.current_hour # NoHour =>
              /\ Len(cycle.begun) >= 3
              /\ (Len(cycle.begun) = 4) = (cycle.current_hour \in {9, 15})
              /\ cycle.pc # "hour"

\* a cycle that ended after its fundamentals stage, begun at 15 o'clock
C34_Witness ==
    /\ cycle.full
    /\ cycle.pc = "done"
    /\ cycle.current_hour = 15
    /\ cycle.begun = Stages
    /\ \E n \in Attempts : cycle.log[n].stage = "intraday" /\ cycle.log[n].outcome = "error"
    /\ cycle.log[Len(cycle.log)].stage = "fundamentals"

\* a cycle that ended after its daily stage, the hour being 12
C34_FundamentalsSkipped ==
    /\ cycle.full
    /\ cycle.pc = "done"
    /\ cycle.current_hour = 12
    /\ cycle.begun = <<"market_news", "intraday", "daily">>
    /\ cycle.log # << >>
    /\ cycle.log[Len(cycle.log)].stage = "daily"

\* the attempts of the stage the cycle is in
StageLog == SelectSeq(cycle.log, LAMBDA e : e.stage = cycle.stage)

\* calls the stage makes for each symbol
CallsPerSymbol == IF cycle.stage = "intraday" THEN 2 ELSE 1

\* the stage's attempts so far are one per call of each symbol, in the order
\* of the list, whatever their outcomes
OneAttemptEach ==
    /\ \A n \in 1..Len(StageLog) :
          /\ StageLog[n].i = (n - 1) \div CallsPerSymbol
          /\ StageLog[n].k = ((n - 1) % CallsPerSymbol) + 1
          /\ StageLog[n].symbol = cycle.symbols[StageLog[n].i + 1]
    /\ Len(StageLog) <= Len(cycle.symbols) * CallsPerSymbol
    /\ cycle.pc \in {"between", "hour", "done"} =>
          Len(StageLog) = Len(cycle.symbols) * CallsPerSymbol

\* C35: a stage attempts each symbol of its list once, in order, whether the
\* calls before it failed or were denied, and has attempted them all when it
\* returns; every stage run on its own and every full cycle reaches its end
C35_StagesRunToTheEnd == []OneAttemptEach /\ <>(cycle.pc = "done")

\* a daily stage over five symbols that ended after a denied, a failed and
\* a successful call, the fifth symbol denied like the first
C35_Witness ==
    /\ cycle.stage = "daily"
    /\ cycle.pc = "done"
    /\ Len(cycle.symbols) = MaxStageSymbols
    /\ Len(cycle.log) = MaxStageSymbols
    /\ cycle.log[1].outcome = "denied"
    /\ cycle.log[2].outcome = "error"
    /\ cycle.log[3].outcome = "ok"
    /\ cycle.log[MaxStageSymbols].symbol = StageSymbols[MaxStageSymbols]

\* the provider lists of the symbol-driven stages
RoundRobinLists ==
    [intraday |-> <<"finnhub", "alphavantage">>,
     daily |-> <<"alphavantage", "finnhub", "polygon", "tiingo">>,
     fundamentals |-> <<"alphavantage", "finnhub">>]

\* the list positions whose calls went to the provider
AssignedTo(provider) ==
    {cycle.log[n].i : n \in {m \in Attempts : cycle.log[m].provider = provider}}

\* C37: in the intraday, daily and fundamentals stages the symbol at index i
\* is attempted with the provider at index i mod n of the stage's list; when
\* the stage is over the numbers of symbols of any two providers of the list
\* differ by at most one, and no other provider has an attempt
C37_RoundRobin ==
    cycle.stage \in DOMAIN RoundRobinLists =>
        LET providers == RoundRobinLists[cycle.stage]
            listed == {providers[x] : x \in 1..Len(providers)}
        IN  /\ \A n \in Attempts :
                  cycle.log[n].provider = providers[(cycle.log[n].i % Len(providers)) + 1]
            /\ cycle.pc = "awaiting" =>
                  CurrentProvider(cycle) = providers[(cycle.i % Len(providers)) + 1]
            /\ \A q \in Providers \ listed : AssignedTo(q) = {}
            /\ cycle.pc = "done" =>
                  \A a, b \in listed :
                      Cardinality(AssignedTo(a)) - Cardinality(AssignedTo(b)) <= 1

\* a daily stage over five symbols: the fifth went to the first provider
\* again, which has two symbols while the others have one
C37_Witness ==
    /\ cycle.stage = "daily"
    /\ cycle.pc = "done"
    /\ Len(cycle.log) = 5
    /\ cycle.log[5].provider = "alphavantage"
    /\ cycle.log[5].outcome = "ok"
    /\ Cardinality(AssignedTo("alphavantage")) = 2
    /\ Cardinality(AssignedTo("tiingo")) = 1

\* the symbol has no record in di_prices_daily
NoDailyPrice(symbol) == \A d \in Dates : prices[symbol][d] = NoPrice

\* this step is an execute_trade, or a generate_trade_signal
ExecuteTradeStep == tradesDone' # tradesDone
GenerateSignalStep == lastSignal' # lastSignal

\* C36: for a symbol without a daily price record execute_trade returns no
\* transaction id and generate_trade_signal returns no signal, and neither
\* writes to the trade signals, the ledger or the two position partitions
C36_NoPriceNoWrite ==
    [][/\ (ExecuteTradeStep /\ NoDailyPrice(lastTrade'.signal.symbol)) =>
             /\ lastTrade'.transaction_id = NoId
             /\ UNCHANGED <<se_signals, transactions, active, history>>
       /\ (GenerateSignalStep /\ NoDailyPrice(lastSignal'.recommendation.symbol)) =>
             /\ lastSignal'.signal = << >>
             /\ UNCHANGED <<se_signals, transactions, active, history>>]_vars

\* a buy signal asked for and a trade asked for on the unpriced symbol, both
\* refused, after a trade on the priced symbol that was recorded
C36_Witness ==
    /\ NoDailyPrice("AAA")
    /\ lastSignal.recommendation.symbol = "AAA"
    /\ lastSignal.recommendation.recommendation = "buy"
    /\ lastSignal.signal = << >>
    /\ se_signals = EmptyStore
    /\ tradesDone = 2
    /\ lastTrade.signal.symbol = "AAA"
    /\ lastTrade.signal.price_limit = MaxPrice
    /\ lastTrade.transaction_id = NoId
    /\ \A id \in DOMAIN transactions : transactions[id].symbol = "BBB"
    /\ \A id \in DOMAIN active : active[id].symbol = "BBB"
    /\ transactions # EmptyStore

\* C38: execute_trade returns a transaction id only if the transaction is in
\* the ledger and no store call of the trade failed
C38_IdOnlyIfStored ==
    \A p \in Procs :
        Returned(p) # NoId =>
            /\ Returned(p) \in DOMAIN transactions
            /\ calls[p].failed = {}

\* a trade whose transaction write was rejected returned its id all the
\* same, and its position update went through
C38_IdOfUnstoredTransaction ==
    \E p \in Procs :
        /\ Returned(p) # NoId
        /\ calls[p].failed = {"upsert_transaction"}
        /\ transactions = EmptyStore
        /\ \E id \in DOMAIN active : active[id] # OpenedPosition("AAA", prices)

\* a trade whose position update failed returned its id all the same
C38_IdOfFailedUpdate ==
    \E p \in Procs :
        /\ Returned(p) # NoId
        /\ calls[p].failed = {"update_positions"}
        /\ Returned(p) \in DOMAIN transactions
        /\ active = [id \in {<<"AAA", 0>>} |-> OpenedPosition("AAA", prices)]
        /\ \A q \in Procs \ {p} : calls[q].pc = "idle"

\* the shares the recorded transactions add up to: buys less sells
RECURSIVE NetQuantity(_)
NetQuantity(ids) ==
    IF ids = {} THEN 0
    ELSE LET id == CHOOSE x \in ids : TRUE
             txn == transactions[id]
         IN  (IF txn.transaction_type = "buy" THEN txn.quantity ELSE 0 - txn.quantity)
                 + NetQuantity(ids \ {id})

\* the ledger's count for a position: the symbol's recorded transactions
\* since the position was opened
LedgerQuantity(position) ==
    NetQuantity({id \in DOMAIN transactions :
                    /\ transactions[id].symbol = position.symbol
                    /\ transactions[id].executed_at >= position.opened_at})

\* a sell of the symbol is recorded in the second the position was opened,
\* where the clock does not tell which came first
SoldWhenOpened(position) ==
    \E id \in DOMAIN transactions :
        /\ transactions[id].symbol = position.symbol
        /\ transactions[id].transaction_type = "sell"
        /\ transactions[id].executed_at = position.opened_at

LedgerMatchesPositions ==
    \A id \in DOMAIN active :
        ~SoldWhenOpened(active[id]) => active[id].quantity = LedgerQuantity(active[id])

\* C39: after trades run one after another, the quantity of every active
\* position is the buys less the sells recorded for its symbol since it was
\* opened
C39_LedgerMatchesPositions == tradesDone > 0 => LedgerMatchesPositions

\* the same in the states in which every trade made has a record of its own
C39_MatchesWhenEveryTradeRecorded ==
    (tradesDone > 0 /\ Cardinality(DOMAIN transactions) = tradesDone)
        => LedgerMatchesPositions

\* two trades with one record each, and a position that agrees with them
C39_TwoTradesRecorded ==
    /\ tradesDone = 2
    /\ Cardinality(DOMAIN transactions) = 2
    /\ \E id \in DOMAIN active :
          /\ ~SoldWhenOpened(active[id])
          /\ active[id].quantity = LedgerQuantity(active[id])
          /\ active[id].quantity > MaxQty

====
